---- MODULE Spec2Model ----
(***************************************************************************)
(* Model of the per-user response cache of the Beven budget backend:       *)
(*   middleware/cache.js        in-memory cache (NodeCache)                *)
(*   middleware/cache-redis.js  Redis cache with in-memory fallback        *)
(* JavaScript strings are sequences of one-character strings, so that key  *)
(* derivation, sorting and pattern matching are computed as the code       *)
(* computes them.                                                          *)
(***************************************************************************)
EXTENDS Integers, Sequences, FiniteSets, TLC

VARIABLES
  calls,          \* calls of generateCacheKey: their arguments and results
  impl,           \* the middleware module a behaviour follows
  now,            \* the clock, in seconds
  ticks,          \* how often the clock has advanced
  db,             \* the version of the data behind the handlers
  cache,          \* cache.js: the NodeCache instance's entries
  redisClient,    \* cache-redis.js: "open" (connected client) or "null"
  redis,          \* the Redis server's entries [v, t]: JSON text, expiry
  fallbackCache,  \* cache-redis.js: the fallback NodeCache's entries
  inval,          \* cache-redis.js: an invalidation between KEYS and DEL
  reqs,           \* the requests in flight through cacheMiddleware
  conn,           \* cache-redis.js: initializeRedis and the client's events
  lastOp          \* the operation that finished last, and what it returned

vars == << calls, impl, now, ticks, db, cache, redisClient, redis,
           fallbackCache, inval, reqs, conn, lastOp >>

\* What no cache operation changes.
envVars == << calls, impl, now, ticks, db, conn >>

\* The state of cache-redis.js.
redisVars == << redisClient, redis, fallbackCache, inval >>

(***************************************************************************)
(* Strings                                                                 *)
(***************************************************************************)

\* The characters the model uses, in UTF-16 code unit order.
Alphabet ==
  << "&", "*", "-", ".", "0", "1", "2", "3", "4", "5", "6", "7", "8", "9",
     ":", "=", "?", "a", "b", "c", "d", "e", "f", "g", "h", "i", "j", "k",
     "l", "m", "n", "o", "p", "q", "r", "s", "t", "u", "v", "w", "x", "y",
     "z" >>

CharCode(c) == CHOOSE i \in 1..Len(Alphabet) : Alphabet[i] = c

Digits == << "0", "1", "2", "3", "4", "5", "6", "7", "8", "9" >>

\* String(n) of a non-negative integer: its decimal digits.
RECURSIVE NumToString(_)
NumToString(n) ==
  IF n < 10 THEN << Digits[n + 1] >>
  ELSE NumToString(n \div 10) \o << Digits[(n % 10) + 1] >>

\* a < b as JavaScript compares strings: by code units, a proper prefix first.
RECURSIVE StrLess(_, _)
StrLess(a, b) ==
  IF b = << >> THEN FALSE
  ELSE IF a = << >> THEN TRUE
  ELSE IF a[1] # b[1] THEN CharCode(a[1]) < CharCode(b[1])
  ELSE StrLess(Tail(a), Tail(b))

\* s.startsWith(p)
StartsWith(s, p) == Len(p) <= Len(s) /\ SubSeq(s, 1, Len(p)) = p

\* s.includes(p)
Includes(s, p) ==
  \E i \in 0..(Len(s) - Len(p)) : SubSeq(s, i + 1, i + Len(p)) = p

\* The index of the first occurrence of character c in s, 0 when there is none.
IndexOfChar(s, c) ==
  IF \E i \in 1..Len(s) : s[i] = c
  THEN CHOOSE i \in 1..Len(s) : s[i] = c /\ \A j \in 1..(i - 1) : s[j] # c
  ELSE 0

\* Literals.
sUser == << "u", "s", "e", "r" >>
sColon == << ":" >>
sAmp == << "&" >>
sEq == << "=" >>
sStar == << "*" >>
sDotStar == << ".", "*" >>
sUndefined == << "u", "n", "d", "e", "f", "i", "n", "e", "d" >>
sNull == << "n", "u", "l", "l" >>
sBudgets == << "b", "u", "d", "g", "e", "t", "s" >>
sBudget == << "b", "u", "d", "g", "e", "t" >>
sBudgetSummary ==
  << "b", "u", "d", "g", "e", "t", "-", "s", "u", "m", "m", "a", "r", "y" >>
sCategories == << "c", "a", "t", "e", "g", "o", "r", "i", "e", "s" >>
sConnections == << "c", "o", "n", "n", "e", "c", "t", "i", "o", "n", "s" >>
sConnection == << "c", "o", "n", "n", "e", "c", "t", "i", "o", "n" >>
sUserSearch == << "u", "s", "e", "r", "-", "s", "e", "a", "r", "c", "h" >>
sLimit == << "l", "i", "m", "i", "t" >>
sId == << "i", "d" >>
sQ == << "q" >>
sOne == << "1" >>
sTwo == << "2" >>

(***************************************************************************)
(* JavaScript values used as parameters                                    *)
(***************************************************************************)

\* A parameter value: a string, a number or undefined.
VStr(s) == [t |-> "string", v |-> s]
VNum(n) == [t |-> "number", v |-> n]
VUndefined == [t |-> "undefined", v |-> << >>]
VNull == [t |-> "null", v |-> << >>]

\* `${v}` of a template literal.
TemplateString(val) ==
  CASE val.t = "string" -> val.v
    [] val.t = "number" -> NumToString(val.v)
    [] val.t = "undefined" -> sUndefined
    [] val.t = "null" -> sNull

\* The params argument: an object is the sequence of its [name, value]
\* entries in insertion order (names distinct); anything else is a kind tag.
PObj(entries) == [kind |-> "object", entries |-> entries]
POther(kind) == [kind |-> kind, entries |-> << >>]

\* The kinds of argument that are not an object with entries: omitted,
\* undefined, null, and the non-objects (string, number, boolean).
NonObjectKinds == {"omitted", "undefined", "null", "string", "number", "boolean"}

\* Object.keys(params): the names in insertion order.
ObjectKeys(entries) == [i \in 1..Len(entries) |-> entries[i].name]

\* params[key]
Lookup(entries, name) ==
  (CHOOSE i \in 1..Len(entries) : entries[i].name = name)

\* Array.prototype.sort() without a comparator: ascending by StrLess.
RECURSIVE InsertSorted(_, _)
InsertSorted(sorted, x) ==
  IF sorted = << >> THEN << x >>
  ELSE IF StrLess(x, Head(sorted)) THEN << x >> \o sorted
  ELSE << Head(sorted) >> \o InsertSorted(Tail(sorted), x)

RECURSIVE Sort(_)
Sort(seq) ==
  IF seq = << >> THEN << >>
  ELSE InsertSorted(Sort(SubSeq(seq, 1, Len(seq) - 1)), seq[Len(seq)])

\* Array.prototype.join(sep)
RECURSIVE Join(_, _)
Join(parts, sep) ==
  IF parts = << >> THEN << >>
  ELSE IF Len(parts) = 1 THEN parts[1]
  ELSE parts[1] \o sep \o Join(Tail(parts), sep)

(***************************************************************************)
(* Key derivation                                                          *)
(***************************************************************************)

\* The entries generateCacheKey works on after its null/non-object guard
\* (and the default value {} of an omitted or undefined argument).
NormalizeParams(params) ==
  IF params.kind = "object" THEN params.entries ELSE << >>

ParamString(entries) ==
  LET names == Sort(ObjectKeys(entries))
      pair(name) == name \o sEq \o TemplateString(entries[Lookup(entries, name)].value)
  IN Join([i \in 1..Len(names) |-> pair(names[i])], sAmp)

\* A key derivation that forgets the tenant.
generateCacheKeyNoUser(userId, endpoint, params) ==
  LET paramString == ParamString(NormalizeParams(params))
  IN sUser \o sColon \o endpoint
       \o (IF paramString # << >> THEN sColon \o paramString ELSE << >>)

\* A key derivation that does not sort the names.
generateCacheKeyUnsorted(userId, endpoint, params) ==
  LET entries == NormalizeParams(params)
      paramString ==
        Join([i \in 1..Len(entries) |->
                entries[i].name \o sEq \o TemplateString(entries[i].value)], sAmp)
  IN sUser \o sColon \o NumToString(userId) \o sColon \o endpoint
       \o (IF paramString # << >> THEN sColon \o paramString ELSE << >>)

\* A key derivation that always appends the separator.
generateCacheKeyTrailing(userId, endpoint, params) ==
  LET paramString == ParamString(NormalizeParams(params))
  IN sUser \o sColon \o NumToString(userId) \o sColon \o endpoint
       \o sColon \o paramString

\* middleware/cache.js generateCacheKey
generateCacheKey(userId, endpoint, params) ==
  LET paramString == ParamString(NormalizeParams(params))
  IN sUser \o sColon \o NumToString(userId) \o sColon \o endpoint
       \o (IF paramString # << >> THEN sColon \o paramString ELSE << >>)

(***************************************************************************)
(* Regular expressions, as far as invalidateUserCache builds them: literal *)
(* characters, '.' and a postfix '*'                                       *)
(***************************************************************************)

\* s.replace(c, by) with a string pattern: the first occurrence only.
ReplaceFirst(s, c, by) ==
  LET i == IndexOfChar(s, c)
  IN IF i = 0 THEN s
     ELSE SubSeq(s, 1, i - 1) \o by \o SubSeq(s, i + 1, Len(s))

\* The atoms of a pattern: a character, starred or not.
RECURSIVE RegexAtoms(_)
RegexAtoms(p) ==
  IF p = << >> THEN << >>
  ELSE IF Len(p) >= 2 /\ p[2] = "*"
       THEN << [c |-> p[1], star |-> TRUE] >> \o RegexAtoms(SubSeq(p, 3, Len(p)))
       ELSE << [c |-> p[1], star |-> FALSE] >> \o RegexAtoms(Tail(p))

AtomMatches(c, ch) == c = "." \/ c = ch

\* Some prefix of s matches the atoms.
RECURSIVE MatchHere(_, _)
MatchHere(atoms, s) ==
  IF atoms = << >> THEN TRUE
  ELSE LET a == Head(atoms)
       IN IF a.star
          THEN \/ MatchHere(Tail(atoms), s)
               \/ (s # << >> /\ AtomMatches(a.c, s[1]) /\ MatchHere(atoms, Tail(s)))
          ELSE s # << >> /\ AtomMatches(a.c, s[1])
                 /\ MatchHere(Tail(atoms), Tail(s))

\* The compiled pattern matches somewhere in the key.
AtomsMatch(key, atoms) ==
  \E i \in 0..Len(key) : MatchHere(atoms, SubSeq(key, i + 1, Len(key)))

\* key.match(pattern) is not null.
RegexMatch(key, pattern) == AtomsMatch(key, RegexAtoms(pattern))

(***************************************************************************)
(* NodeCache: entries [v, t], t the expiry instant (0: never)              *)
(***************************************************************************)

stdTTL == 600
checkperiod == 120

Undefined == [undefined |-> TRUE]

NoEntries == << >>

\* _check: an entry is expired once its instant has passed.
Expired(entry, time) == entry.t # 0 /\ entry.t < time

\* A cache.get that does not look at the expiry of the entry.
NCGetNoExpiry(c, key, time) ==
  IF key \in DOMAIN c THEN c[key].v ELSE Undefined

\* cache.get(key)
NCGet(c, key, time) ==
  IF key \in DOMAIN c /\ ~Expired(c[key], time) THEN c[key].v ELSE Undefined

\* cache.del(keys)
NCDel(c, keys) == [k \in (DOMAIN c) \ keys |-> c[k]]

\* A cache.get that renews the expiry of the entry it returns.
NCAfterGetTouch(c, key, time) ==
  IF key \in DOMAIN c /\ Expired(c[key], time) THEN NCDel(c, {key})
  ELSE IF key \in DOMAIN c THEN [c EXCEPT ![key].t = time + stdTTL]
  ELSE c

\* What cache.get(key) leaves: an expired entry it met is deleted.
NCAfterGet(c, key, time) ==
  IF key \in DOMAIN c /\ Expired(c[key], time) THEN NCDel(c, {key}) ELSE c

\* A cache.set that keeps what the key holds and puts the value beside it.
NCSetBeside(c, key, value, ttl, time) ==
  LET target == IF key \in DOMAIN c THEN key \o << "'" >> ELSE key
  IN [k \in (DOMAIN c) \cup {target} |->
        IF k = target THEN [v |-> value, t |-> IF ttl = 0 THEN 0 ELSE time + ttl]
        ELSE c[k]]

\* cache.set(key, value, ttl); ttl 0 means no expiry.
NCSet(c, key, value, ttl, time) ==
  [k \in (DOMAIN c) \cup {key} |->
     IF k = key THEN [v |-> value, t |-> IF ttl = 0 THEN 0 ELSE time + ttl]
     ELSE c[k]]

\* cache.keys()
NCKeys(c) == DOMAIN c

\* The periodic check: every expired entry is deleted.
NCCheckData(c, time) == NCDel(c, { k \in DOMAIN c : Expired(c[k], time) })

\* cache.flushAll()
NCFlushAll(c) == NoEntries

(***************************************************************************)
(* middleware/cache.js                                                     *)
(***************************************************************************)

\* An absent argument (endpoint = null, ttl = null).
Null == << >>

\* A setCachedData that passes its ttl on as it is.
SetTtlRaw(ttl) == ttl

\* setCachedData's choice of time to live: cache.set(key, data, ttl) with a
\* truthy ttl, cache.set(key, data) with the instance's stdTTL otherwise.
SetTtl(ttl) == IF ttl # 0 THEN ttl ELSE stdTTL

\* setCachedData(userId, endpoint, data, params, ttl); ttl 0 stands for an
\* omitted, null or zero ttl.
setCachedData(c, userId, endpoint, data, params, ttl, time) ==
  NCSet(c, generateCacheKey(userId, endpoint, params), data, SetTtl(ttl), time)

\* getCachedData(userId, endpoint, params)
getCachedData(c, userId, endpoint, params, time) ==
  NCGet(c, generateCacheKey(userId, endpoint, params), time)

\* The pattern invalidateUserCache matches keys against.
InvalidatePattern(userId, endpoint) ==
  IF endpoint # Null
  THEN sUser \o sColon \o NumToString(userId) \o sColon \o endpoint \o sStar
  ELSE sUser \o sColon \o NumToString(userId) \o sColon \o sStar

\* The keys invalidateUserCache deletes.
InvalidatedKeys(c, userId, endpoint) ==
  LET pattern == InvalidatePattern(userId, endpoint)
      atoms == RegexAtoms(ReplaceFirst(pattern, "*", sDotStar))
  IN { key \in NCKeys(c) : AtomsMatch(key, atoms) }

\* invalidateUserCache(userId, endpoint)
invalidateUserCache(c, userId, endpoint) ==
  NCDel(c, InvalidatedKeys(c, userId, endpoint))

(***************************************************************************)
(* Requests                                                                *)
(***************************************************************************)

\* No call of the key derivation is being followed.
NoCalls == << >>

MaxInFlight == 1
MaxEntries == 2
MaxVersion == 2
MaxTicks == 4
TickSeconds == 170

Tenants == {1, 2}

\* request.user is not set.
NoUser == -1

Methods == {"GET", "HEAD"}

DefaultTtl == 600
BudgetsTtl == 300
BudgetTtl == 300
BudgetSummaryTtl == 180
ConnectionsTtl == 300
UserSearchTtl == 60

\* The cacheMiddleware options of the budget routes; withId: the route has
\* the path parameter :id; statuses: what its handler answers with.
\* The query string's value user:1:budgets
sUser1Budgets ==
  << "u", "s", "e", "r", ":", "1", ":", "b", "u", "d", "g", "e", "t", "s" >>

\* The query string's value user:1:connections
sUser1Connections ==
  << "u", "s", "e", "r", ":", "1", ":",
     "c", "o", "n", "n", "e", "c", "t", "i", "o", "n", "s" >>

\* request.query: no parameter, or ?q=<value>
NoQuery == << >>
QueryQ(value) == << [name |-> sQ, value |-> VStr(value)] >>

\* The cached routes: the cacheMiddleware options (endpoint, ttl), whether
\* the path has the parameter :id, the statuses the handler answers with,
\* and the query strings requests come with.
BudgetsOptions ==
  [endpoint |-> sBudgets, ttl |-> BudgetsTtl, withId |-> FALSE,
   statuses |-> {200, 500}, queries |-> {NoQuery, QueryQ(sUser1Budgets)},
   keyGenerator |-> "none"]
BudgetOptions ==
  [endpoint |-> sBudget, ttl |-> BudgetTtl, withId |-> TRUE,
   statuses |-> {200, 404, 500}, queries |-> {NoQuery},
   keyGenerator |-> "none"]
BudgetSummaryOptions ==
  [endpoint |-> sBudgetSummary, ttl |-> BudgetSummaryTtl, withId |-> TRUE,
   statuses |-> {200, 404, 500}, queries |-> {NoQuery},
   keyGenerator |-> "none"]
ConnectionsOptions ==
  [endpoint |-> sConnections, ttl |-> ConnectionsTtl, withId |-> FALSE,
   statuses |-> {200, 500}, queries |-> {NoQuery},
   keyGenerator |-> "none"]
UserSearchOptions ==
  [endpoint |-> sUserSearch, ttl |-> UserSearchTtl, withId |-> FALSE,
   statuses |-> {200, 400, 500}, queries |-> {QueryQ(sUser1Connections)},
   keyGenerator |-> "none"]

\* The routes of routes/budgets.js (cache.js) requests come to.
CacheRoutes == {BudgetsOptions, BudgetOptions}

\* The routes of routes/connections.js (cache-redis.js) requests come to.
RedisRoutes == {ConnectionsOptions, UserSearchOptions}

\* request.params of a route: { id: '1' } where the path has :id.
PathParams(route) ==
  IF route.withId THEN << [name |-> sId, value |-> VStr(sOne)] >> ELSE << >>

\* { ...a, ...b }: b's values win, a's names keep their place, new names follow.
RECURSIVE Spread(_, _)
Spread(a, b) ==
  IF b = << >> THEN a
  ELSE LET x == Head(b)
           merged ==
             IF \E i \in 1..Len(a) : a[i].name = x.name
             THEN [i \in 1..Len(a) |-> IF a[i].name = x.name THEN x ELSE a[i]]
             ELSE Append(a, x)
       IN Spread(merged, Tail(b))

\* What a handler sends: the data of request.user as the database has it
\* (success), or an error body.
HandlerData(user, endpoint, args, statusCode) ==
  [owner |-> user, ep |-> endpoint, args |-> args,
   ver |-> IF statusCode = 200 THEN db ELSE -1, form |-> "object"]

\* initializeRedis has returned; what its client has logged is not followed.
Settled ==
  [pc |-> "settled", configured |-> TRUE, attempt |-> 0, total |-> 0,
   logged |-> 0, returned |-> "none", gaveUp |-> FALSE]

IdleReq ==
  [pc |-> "idle", method |-> "", user |-> NoUser, endpoint |-> << >>,
   ttl |-> 0, args |-> << >>, cacheKey |-> << >>, wrapped |-> FALSE,
   statuses |-> {}, statusCode |-> 200, data |-> Undefined]

NullValue == [null |-> TRUE]

\* if (cachedData)
Truthy(value) == value # Undefined /\ value # NullValue

\* JSON.stringify(data): the text of a response body; objects a handler
\* built and objects parsed from that text have the same text.
JSONStringify(data) ==
  [text |-> [owner |-> data.owner, ep |-> data.ep, args |-> data.args,
             ver |-> data.ver]]

\* JSON.parse(text)
JSONParse(json) ==
  [owner |-> json.text.owner, ep |-> json.text.ep, args |-> json.text.args,
   ver |-> json.text.ver, form |-> "parsed"]

\* A cacheMiddleware that ignores a hit.
cacheMiddlewareNoHit(s, method, user, route, query) ==
  LET args == Spread(query, PathParams(route))
      endpoint == route.endpoint
      ttl == IF route.ttl # 0 THEN route.ttl ELSE DefaultTtl
      base == [IdleReq EXCEPT !.pc = "handler", !.method = method,
                              !.user = user, !.endpoint = endpoint,
                              !.statuses = route.statuses]
  IN IF method # "GET" \/ user = NoUser \/ user = 0
     THEN /\ reqs' = [reqs EXCEPT ![s] = base]
          /\ lastOp' = [op |-> "pass"]
          /\ UNCHANGED cache
     ELSE LET cacheKey == generateCacheKey(user, endpoint, PObj(args))
          IN /\ cache' = NCAfterGet(cache, cacheKey, now)
             /\ reqs' = [reqs EXCEPT ![s] =
                           [base EXCEPT !.cacheKey = cacheKey, !.ttl = ttl,
                                        !.args = args, !.wrapped = TRUE]]
             /\ lastOp' = [op |-> "miss", failed |-> FALSE]

\* A cacheMiddleware that stores an entry as soon as it has missed.
cacheMiddlewareEagerStore(s, method, user, route, query) ==
  LET args == Spread(query, PathParams(route))
      endpoint == route.endpoint
      ttl == IF route.ttl # 0 THEN route.ttl ELSE DefaultTtl
      base == [IdleReq EXCEPT !.pc = "handler", !.method = method,
                              !.user = user, !.endpoint = endpoint,
                              !.statuses = route.statuses]
  IN IF method # "GET" \/ user = NoUser \/ user = 0
     THEN /\ reqs' = [reqs EXCEPT ![s] = base]
          /\ lastOp' = [op |-> "pass"]
          /\ UNCHANGED cache
     ELSE LET cacheKey == generateCacheKey(user, endpoint, PObj(args))
              cachedData == NCGet(cache, cacheKey, now)
          IN IF Truthy(cachedData)
             THEN /\ UNCHANGED << reqs, cache >>
                  /\ lastOp' = [op |-> "hit", user |-> user, key |-> cacheKey,
                                response |-> cachedData, handlerRuns |-> 0,
                                failed |-> FALSE]
             ELSE /\ cache' = NCSet(cache, cacheKey,
                                    HandlerData(user, endpoint, args, 200), ttl, now)
                  /\ reqs' = [reqs EXCEPT ![s] =
                                [base EXCEPT !.cacheKey = cacheKey,
                                             !.ttl = ttl, !.args = args,
                                             !.wrapped = TRUE]]
                  /\ lastOp' = [op |-> "miss", failed |-> FALSE]

\* A cacheMiddleware that caches whatever the method.
cacheMiddlewareAnyMethod(s, method, user, route, query) ==
  LET args == Spread(query, PathParams(route))
      endpoint == route.endpoint
      ttl == IF route.ttl # 0 THEN route.ttl ELSE DefaultTtl
      base == [IdleReq EXCEPT !.pc = "handler", !.method = method,
                              !.user = user, !.endpoint = endpoint,
                              !.statuses = route.statuses]
  IN IF user = NoUser \/ user = 0
     THEN /\ reqs' = [reqs EXCEPT ![s] = base]
          /\ lastOp' = [op |-> "pass"]
          /\ UNCHANGED cache
     ELSE LET cacheKey == generateCacheKey(user, endpoint, PObj(args))
              cachedData == NCGet(cache, cacheKey, now)
          IN /\ cache' = NCAfterGet(cache, cacheKey, now)
             /\ IF Truthy(cachedData)
                THEN /\ UNCHANGED reqs
                     /\ lastOp' = [op |-> "hit", user |-> user, key |-> cacheKey,
                                   response |-> cachedData, handlerRuns |-> 0,
                                   failed |-> FALSE]
                ELSE /\ reqs' = [reqs EXCEPT ![s] =
                                   [base EXCEPT !.cacheKey = cacheKey,
                                                !.ttl = ttl, !.args = args,
                                                !.wrapped = TRUE]]
                     /\ lastOp' = [op |-> "miss", failed |-> FALSE]

\* A cacheMiddleware that caches without a user, under the key of user 1.
cacheMiddlewareNoUserCheck(s, method, user, route, query) ==
  LET args == Spread(query, PathParams(route))
      endpoint == route.endpoint
      ttl == IF route.ttl # 0 THEN route.ttl ELSE DefaultTtl
      base == [IdleReq EXCEPT !.pc = "handler", !.method = method,
                              !.user = user, !.endpoint = endpoint,
                              !.statuses = route.statuses]
  IN IF method # "GET"
     THEN /\ reqs' = [reqs EXCEPT ![s] = base]
          /\ lastOp' = [op |-> "pass"]
          /\ UNCHANGED cache
     ELSE LET cacheKey == generateCacheKey(IF user = NoUser THEN 1 ELSE user,
                                           endpoint, PObj(args))
              cachedData == NCGet(cache, cacheKey, now)
          IN /\ cache' = NCAfterGet(cache, cacheKey, now)
             /\ IF Truthy(cachedData)
                THEN /\ UNCHANGED reqs
                     /\ lastOp' = [op |-> "hit", user |-> user, key |-> cacheKey,
                                   response |-> cachedData, handlerRuns |-> 0,
                                   failed |-> FALSE]
                ELSE /\ reqs' = [reqs EXCEPT ![s] =
                                   [base EXCEPT !.cacheKey = cacheKey,
                                                !.ttl = ttl, !.args = args,
                                                !.wrapped = TRUE]]
                     /\ lastOp' = [op |-> "miss", failed |-> FALSE]

\* options.keyGenerator(request), for the generators a route may pass: "url"
\* returns the path of the route, "/" followed by the endpoint name; "throws"
\* never returns (the gate handles it before calling this operator).
sSlash == << "/" >>
keyGenerator(kind, endpoint) == sSlash \o endpoint

\* The preHandler of either module is an async function without a try block
\* around the key derivation: an exception of options.keyGenerator rejects the
\* hook, the framework answers 500 and the route handler is not run.
HookRejected(user, endpoint) ==
  [op |-> "rejected", user |-> user, endpoint |-> endpoint,
   statusCode |-> 500, handlerRuns |-> 0, failed |-> FALSE]

\* cacheMiddleware(options)(request, reply) of cache.js, as the preHandler of
\* a request in slot s: pass through, or answer from the cache, or wrap
\* reply.send and let the handler run.
cacheMiddleware(s, method, user, route, query) ==
  LET args == Spread(query, PathParams(route))
      endpoint == route.endpoint
      ttl == IF route.ttl # 0 THEN route.ttl ELSE DefaultTtl
      base == [IdleReq EXCEPT !.pc = "handler", !.method = method,
                              !.user = user, !.endpoint = endpoint,
                              !.statuses = route.statuses]
  IN IF method # "GET" \/ user = NoUser \/ user = 0
     THEN /\ reqs' = [reqs EXCEPT ![s] = base]
          /\ lastOp' = [op |-> "pass"]
          /\ UNCHANGED cache
     ELSE IF route.keyGenerator = "throws"
     THEN /\ UNCHANGED << reqs, cache >>
          /\ lastOp' = HookRejected(user, endpoint)
     ELSE LET cacheKey == IF route.keyGenerator = "none"
                          THEN generateCacheKey(user, endpoint, PObj(args))
                          ELSE keyGenerator(route.keyGenerator, endpoint)
              cachedData == NCGet(cache, cacheKey, now)
          IN /\ cache' = NCAfterGet(cache, cacheKey, now)
             /\ IF Truthy(cachedData)
                THEN /\ UNCHANGED reqs
                     /\ lastOp' = [op |-> "hit", user |-> user, key |-> cacheKey,
                                   response |-> cachedData, handlerRuns |-> 0,
                                   failed |-> FALSE]
                ELSE /\ reqs' = [reqs EXCEPT ![s] =
                                   [base EXCEPT !.cacheKey = cacheKey,
                                                !.ttl = ttl, !.args = args,
                                                !.wrapped = TRUE]]
                     /\ lastOp' = [op |-> "miss", failed |-> FALSE]

\* A request arrives at a cached route and its preHandler runs.
Request(s, method, user, route, query) ==
  /\ impl = "cache"
  /\ reqs[s].pc = "idle"
  /\ cacheMiddleware(s, method, user, route, query)
  /\ UNCHANGED << envVars, redisVars >>

\* The route handler runs: it reads the database and sets the status.
RunHandler(s) ==
  /\ reqs[s].pc = "handler"
  /\ \E statusCode \in reqs[s].statuses :
       /\ reqs[s].user = NoUser => statusCode = 500
       /\ reqs' = [reqs EXCEPT ![s].pc = "send",
                               ![s].statusCode = statusCode,
                               ![s].data = HandlerData(reqs[s].user, reqs[s].endpoint,
                                                       reqs[s].args, statusCode)]
  /\ lastOp' = [op |-> "handler"]
  /\ UNCHANGED << envVars, cache, redisVars >>

\* A wrapped send that stores whatever the status.
WrappedSendAnyStatus(c, r, time) == NCSet(c, r.cacheKey, r.data, r.ttl, time)

\* A wrapped send that stores under the default time to live.
WrappedSendDefaultTtl(c, r, time) ==
  IF r.statusCode >= 200 /\ r.statusCode < 300
  THEN NCSet(c, r.cacheKey, r.data, DefaultTtl, time)
  ELSE c

\* A wrapped send that leaves the entry of a request that stored first alone.
WrappedSendKeepFirst(c, r, time) ==
  IF r.statusCode >= 200 /\ r.statusCode < 300 /\ r.cacheKey \notin DOMAIN c
  THEN NCSet(c, r.cacheKey, r.data, r.ttl, time)
  ELSE c

\* The reply.send the middleware installed: cache a 2xx response, then send.
WrappedSend(c, r, time) ==
  IF r.statusCode >= 200 /\ r.statusCode < 300
  THEN NCSet(c, r.cacheKey, r.data, r.ttl, time)
  ELSE c

\* The handler's result is sent: reply.send(data).
Send(s) ==
  /\ impl = "cache"
  /\ reqs[s].pc = "send"
  /\ LET r == reqs[s]
         after == IF r.wrapped THEN WrappedSend(cache, r, now) ELSE cache
     IN /\ (r.wrapped /\ r.cacheKey \notin DOMAIN cache)
             => Cardinality(DOMAIN after) <= MaxEntries
        /\ cache' = after
        /\ lastOp' = [op |-> "sent", user |-> r.user, key |-> r.cacheKey,
                      wrapped |-> r.wrapped, statusCode |-> r.statusCode,
                      response |-> r.data, handlerRuns |-> 1,
                      failed |-> FALSE]
        /\ reqs' = [reqs EXCEPT ![s] = IdleReq]
  /\ UNCHANGED << envVars, redisVars >>

\* invalidateUserCache is called.
Invalidate(userId, endpoint) ==
  /\ impl = "cache"
  /\ cache' = invalidateUserCache(cache, userId, endpoint)
  /\ lastOp' = [op |-> "invalidate", user |-> userId, endpoint |-> endpoint,
                removed |-> (DOMAIN cache) \ (DOMAIN cache'), failed |-> FALSE]
  /\ UNCHANGED << envVars, redisVars, reqs >>

\* The call before this one was a set of the same value under the same key.
SameSetBefore(key, data) ==
  lastOp.op = "set" /\ lastOp.key = key /\ lastOp.data = data

\* Endpoints and parameters of direct calls of the cache functions.
ApiEndpoints == {sCategories}
ApiParams == { POther("omitted") }
ApiTtls == {0, BudgetsTtl}

\* setCachedData is called with the user's data.
SetCached(userId, endpoint, params, ttl) ==
  /\ impl = "cache"
  /\ LET key == generateCacheKey(userId, endpoint, params)
         data == HandlerData(userId, endpoint, NormalizeParams(params), 200)
     IN /\ key \notin DOMAIN cache => Cardinality(DOMAIN cache) < MaxEntries
        /\ cache' = setCachedData(cache, userId, endpoint, data, params, ttl, now)
        /\ lastOp' = [op |-> "set", user |-> userId, key |-> key, data |-> data,
                      ttl |-> ttl, at |-> now, failed |-> FALSE,
                      again |-> SameSetBefore(key, data)]
  /\ UNCHANGED << envVars, redisVars, reqs >>

\* getCachedData is called.
GetCached(userId, endpoint, params) ==
  /\ impl = "cache"
  /\ LET key == generateCacheKey(userId, endpoint, params)
     IN /\ cache' = NCAfterGet(cache, key, now)
        /\ lastOp' = [op |-> "get", user |-> userId, key |-> key,
                      result |-> getCachedData(cache, userId, endpoint, params, now),
                      evicted |-> key \in (DOMAIN cache) \ (DOMAIN cache'),
                      failed |-> FALSE]
  /\ UNCHANGED << envVars, redisVars, reqs >>

\* clearAllCache is called.
ClearAll ==
  /\ impl = "cache"
  /\ cache # NoEntries
  /\ cache' = NCFlushAll(cache)
  /\ lastOp' = [op |-> "clear"]
  /\ UNCHANGED << envVars, redisVars, reqs >>

\* The data changes in the database.
DbWrite ==
  /\ impl # "key"
  /\ db < MaxVersion
  /\ db' = db + 1
  /\ lastOp' = [op |-> "write"]
  /\ UNCHANGED << calls, impl, now, ticks, conn, cache, redisVars, reqs >>

\* Time passes; the periodic check of each NodeCache (cache, fallbackCache)
\* runs at every multiple of checkperiod on the way. Keys of Redis expire
\* on their own.
Tick ==
  /\ impl # "key"
  /\ ticks < MaxTicks
  /\ ticks' = ticks + 1
  /\ now' = now + TickSeconds
  /\ LET lastCheck == (now' \div checkperiod) * checkperiod
     IN /\ cache' = IF lastCheck > now THEN NCCheckData(cache, lastCheck) ELSE cache
        /\ fallbackCache' = IF lastCheck > now
                            THEN NCCheckData(fallbackCache, lastCheck)
                            ELSE fallbackCache
  /\ UNCHANGED << calls, impl, db, conn, redisClient, redis, inval, reqs, lastOp >>

(***************************************************************************)
(* Redis: entries [v, t], v the stored text, t the instant the key expires *)
(***************************************************************************)

Nil == [nil |-> TRUE]

\* A Redis key that never expires.
RedisExpiredNever(entry, time) == FALSE

\* A key is gone once its time to live has elapsed.
RedisExpired(entry, time) == entry.t <= time

\* GET key
RedisGet(r, key, time) ==
  IF key \in DOMAIN r /\ ~RedisExpired(r[key], time) THEN r[key].v ELSE Nil

\* SETEX key seconds value
RedisSetEx(r, key, seconds, value, time) ==
  [k \in (DOMAIN r) \cup {key} |->
     IF k = key THEN [v |-> value, t |-> time + seconds] ELSE r[k]]

\* A glob pattern of literal characters, '?' and '*' matches the whole key.
RECURSIVE GlobMatch(_, _)
GlobMatch(pattern, key) ==
  IF pattern = << >> THEN key = << >>
  ELSE IF pattern[1] = "*"
       THEN \/ GlobMatch(Tail(pattern), key)
            \/ (key # << >> /\ GlobMatch(pattern, Tail(key)))
       ELSE /\ key # << >>
            /\ (pattern[1] = "?" \/ pattern[1] = key[1])
            /\ GlobMatch(Tail(pattern), Tail(key))

\* KEYS pattern
RedisKeys(r, pattern, time) ==
  { k \in DOMAIN r : ~RedisExpired(r[k], time) /\ GlobMatch(pattern, k) }

\* DEL keys
RedisDel(r, keys) == [k \in (DOMAIN r) \ keys |-> r[k]]

(***************************************************************************)
(* middleware/cache-redis.js                                               *)
(***************************************************************************)

\* cache-redis.js generateCacheKey
generateCacheKeyR(userId, endpoint, params) ==
  LET paramString == ParamString(NormalizeParams(params))
  IN sUser \o sColon \o NumToString(userId) \o sColon \o endpoint
       \o (IF paramString # << >> THEN sColon \o paramString ELSE << >>)

\* A check of the client that always finds Redis in use.
RedisAlwaysActive == impl = "cache-redis"

\* redisClient && redisClient.isOpen
RedisActive == redisClient = "open"

\* A getCachedData that reads the fallback cache only.
getCachedDataRFallbackOnly(userId, endpoint, params, fails) ==
  NCGet(fallbackCache, generateCacheKeyR(userId, endpoint, params), now)

\* A getCachedData that returns null when the Redis call throws.
getCachedDataRMissOnFailure(userId, endpoint, params, fails) ==
  LET key == generateCacheKeyR(userId, endpoint, params)
  IN IF RedisActive
     THEN IF ~fails
          THEN LET data == RedisGet(redis, key, now)
               IN IF data # Nil THEN JSONParse(data) ELSE NullValue
          ELSE NullValue
     ELSE NCGet(fallbackCache, key, now)

\* getCachedData(userId, endpoint, params); fails: the Redis call throws.
getCachedDataR(userId, endpoint, params, fails) ==
  LET key == generateCacheKeyR(userId, endpoint, params)
  IN IF RedisActive
     THEN IF ~fails
          THEN LET data == RedisGet(redis, key, now)
               IN IF data # Nil THEN JSONParse(data) ELSE NullValue
          ELSE NCGet(fallbackCache, key, now)
     ELSE NCGet(fallbackCache, key, now)

\* The fallback cache after getCachedData.
FallbackAfterGetR(userId, endpoint, params, fails) ==
  LET key == generateCacheKeyR(userId, endpoint, params)
  IN IF RedisActive /\ ~fails THEN fallbackCache
     ELSE NCAfterGet(fallbackCache, key, now)

\* setCachedData(userId, endpoint, data, params, ttl): the two stores after
\* it; ttl 0 stands for an omitted, null or zero ttl.
setCachedDataR(userId, endpoint, data, params, ttl, fails) ==
  LET key == generateCacheKeyR(userId, endpoint, params)
      ttlSeconds == IF ttl # 0 THEN ttl ELSE DefaultTtl
  IN IF RedisActive
     THEN IF ~fails
          THEN [redis |-> RedisSetEx(redis, key, ttlSeconds, JSONStringify(data), now),
                fallbackCache |-> fallbackCache]
          ELSE [redis |-> redis,
                fallbackCache |-> NCSet(fallbackCache, key, data, ttlSeconds, now)]
     ELSE [redis |-> redis,
           fallbackCache |-> NCSet(fallbackCache, key, data, ttlSeconds, now)]

\* The in-memory invalidation of cache-redis.js.
FallbackInvalidated(pattern) ==
  LET atoms == RegexAtoms(ReplaceFirst(pattern, "*", sDotStar))
  IN NCDel(fallbackCache, { key \in NCKeys(fallbackCache) : AtomsMatch(key, atoms) })

\* A cacheMiddleware of cache-redis.js that ignores a hit.
cacheMiddlewareRNoHit(s, method, user, route, query, fails) ==
  LET args == Spread(query, PathParams(route))
      endpoint == route.endpoint
      ttl == IF route.ttl # 0 THEN route.ttl ELSE DefaultTtl
      base == [IdleReq EXCEPT !.pc = "handler", !.method = method,
                              !.user = user, !.endpoint = endpoint,
                              !.statuses = route.statuses]
  IN IF method # "GET" \/ user = NoUser \/ user = 0
     THEN /\ reqs' = [reqs EXCEPT ![s] = base]
          /\ lastOp' = [op |-> "pass"]
          /\ UNCHANGED fallbackCache
     ELSE LET cacheKey == generateCacheKeyR(user, endpoint, PObj(args))
          IN /\ fallbackCache' = FallbackAfterGetR(user, endpoint, PObj(args), fails)
             /\ reqs' = [reqs EXCEPT ![s] =
                           [base EXCEPT !.cacheKey = cacheKey, !.ttl = ttl,
                                        !.args = args, !.wrapped = TRUE]]
             /\ lastOp' = [op |-> "miss", failed |-> fails]

\* cacheMiddleware(options)(request, reply) of cache-redis.js, as the
\* preHandler of a request in slot s.
cacheMiddlewareR(s, method, user, route, query, fails) ==
  LET args == Spread(query, PathParams(route))
      endpoint == route.endpoint
      ttl == IF route.ttl # 0 THEN route.ttl ELSE DefaultTtl
      base == [IdleReq EXCEPT !.pc = "handler", !.method = method,
                              !.user = user, !.endpoint = endpoint,
                              !.statuses = route.statuses]
  IN IF method # "GET" \/ user = NoUser \/ user = 0
     THEN /\ reqs' = [reqs EXCEPT ![s] = base]
          /\ lastOp' = [op |-> "pass"]
          /\ UNCHANGED fallbackCache
     ELSE IF route.keyGenerator = "throws"
     THEN /\ UNCHANGED << reqs, fallbackCache >>
          /\ lastOp' = HookRejected(user, endpoint)
     ELSE LET cacheKey == generateCacheKeyR(user, endpoint, PObj(args))
              cachedData == getCachedDataR(user, endpoint, PObj(args), fails)
          IN /\ fallbackCache' = FallbackAfterGetR(user, endpoint, PObj(args), fails)
             /\ IF Truthy(cachedData)
                THEN /\ UNCHANGED reqs
                     /\ lastOp' = [op |-> "hit", user |-> user, key |-> cacheKey,
                                   response |-> cachedData, handlerRuns |-> 0,
                                   failed |-> fails]
                ELSE /\ reqs' = [reqs EXCEPT ![s] =
                                   [base EXCEPT !.cacheKey = cacheKey,
                                                !.ttl = ttl, !.args = args,
                                                !.wrapped = TRUE]]
                     /\ lastOp' = [op |-> "miss", failed |-> fails]

\* The Redis call of an operation may throw only where one is made.
MayFail(fails) == fails => RedisActive

\* A request arrives at a cached route of routes/connections.js.
RequestR(s, method, user, route, query, fails) ==
  /\ impl = "cache-redis"
  /\ reqs[s].pc = "idle"
  /\ MayFail(fails)
  /\ fails => (method = "GET" /\ user # NoUser /\ user # 0
               /\ route.keyGenerator # "throws")
  /\ cacheMiddlewareR(s, method, user, route, query, fails)
  /\ UNCHANGED << envVars, cache, redisClient, redis, inval >>

\* The stores hold at most MaxEntries entries.
WithinEntries(stores) ==
  Cardinality(DOMAIN stores.redis) + Cardinality(DOMAIN stores.fallbackCache)
    <= MaxEntries

\* A wrapped send of cache-redis.js that stores whatever the status.
WrappedSendRAnyStatus(r, fails) ==
  setCachedDataR(r.user, r.endpoint, r.data, PObj(r.args), r.ttl, fails)

\* The reply.send cache-redis.js installed: the stores after it.
WrappedSendR(r, fails) ==
  IF r.statusCode >= 200 /\ r.statusCode < 300
  THEN setCachedDataR(r.user, r.endpoint, r.data, PObj(r.args), r.ttl, fails)
  ELSE [redis |-> redis, fallbackCache |-> fallbackCache]

\* The handler's result is sent: reply.send(data).
SendR(s, fails) ==
  /\ impl = "cache-redis"
  /\ reqs[s].pc = "send"
  /\ MayFail(fails)
  /\ LET r == reqs[s]
         after == IF r.wrapped THEN WrappedSendR(r, fails)
                  ELSE [redis |-> redis, fallbackCache |-> fallbackCache]
     IN /\ fails => (r.wrapped /\ r.statusCode = 200)
        /\ (after.redis # redis \/ after.fallbackCache # fallbackCache)
             => WithinEntries(after)
        /\ redis' = after.redis
        /\ fallbackCache' = after.fallbackCache
        /\ lastOp' = [op |-> "sent", user |-> r.user, key |-> r.cacheKey,
                      wrapped |-> r.wrapped, statusCode |-> r.statusCode,
                      response |-> r.data, handlerRuns |-> 1,
                      failed |-> fails]
        /\ reqs' = [reqs EXCEPT ![s] = IdleReq]
  /\ UNCHANGED << envVars, cache, redisClient, inval >>

\* invalidateUserCache of cache-redis.js is called: in memory at once; with
\* Redis the keys are listed now and deleted in a second call.
InvalidateR(userId, endpoint, fails) ==
  /\ impl = "cache-redis"
  /\ inval.pc = "idle"
  /\ MayFail(fails)
  /\ LET pattern == InvalidatePattern(userId, endpoint)
         keys == RedisKeys(redis, pattern, now)
     IN IF RedisActive /\ ~fails
        THEN /\ inval' = IF keys # {}
                         THEN [pc |-> "del", user |-> userId, endpoint |-> endpoint,
                               pattern |-> pattern, keys |-> keys]
                         ELSE [pc |-> "idle"]
             /\ lastOp' = IF keys # {} THEN [op |-> "keys", failed |-> FALSE]
                          ELSE [op |-> "invalidate", user |-> userId,
                                endpoint |-> endpoint, removed |-> {},
                                failed |-> FALSE]
             /\ UNCHANGED << redis, fallbackCache >>
        ELSE /\ fallbackCache' = FallbackInvalidated(pattern)
             /\ lastOp' = [op |-> "invalidate", user |-> userId,
                           endpoint |-> endpoint,
                           removed |-> (DOMAIN fallbackCache) \ (DOMAIN fallbackCache'),
                           failed |-> fails]
             /\ UNCHANGED << redis, inval >>
  /\ UNCHANGED << envVars, cache, redisClient, reqs >>

\* The invalidation's DEL; if it throws (or the client is gone by now), the
\* in-memory invalidation runs instead.
InvalidateDelR(fails) ==
  /\ impl = "cache-redis"
  /\ inval.pc = "del"
  /\ ~RedisActive => fails
  /\ IF ~fails
     THEN /\ redis' = RedisDel(redis, inval.keys)
          /\ UNCHANGED fallbackCache
     ELSE /\ fallbackCache' = FallbackInvalidated(inval.pattern)
          /\ UNCHANGED redis
  /\ lastOp' = [op |-> "invalidate", user |-> inval.user,
                endpoint |-> inval.endpoint,
                removed |-> ((DOMAIN redis) \ (DOMAIN redis'))
                              \cup ((DOMAIN fallbackCache) \ (DOMAIN fallbackCache')),
                failed |-> fails /\ RedisActive]
  /\ inval' = [pc |-> "idle"]
  /\ UNCHANGED << envVars, cache, redisClient, reqs >>

\* setCachedData of cache-redis.js is called with the user's data.
SetCachedR(userId, endpoint, params, ttl, fails) ==
  /\ impl = "cache-redis"
  /\ MayFail(fails)
  /\ LET key == generateCacheKeyR(userId, endpoint, params)
         data == HandlerData(userId, endpoint, NormalizeParams(params), 200)
         after == setCachedDataR(userId, endpoint, data, params, ttl, fails)
     IN /\ WithinEntries(after)
        /\ redis' = after.redis
        /\ fallbackCache' = after.fallbackCache
        /\ lastOp' = [op |-> "set", user |-> userId, key |-> key, data |-> data,
                      ttl |-> ttl, at |-> now, failed |-> fails,
                      again |-> SameSetBefore(key, data)]
  /\ UNCHANGED << envVars, cache, redisClient, inval, reqs >>

\* getCachedData of cache-redis.js is called.
GetCachedR(userId, endpoint, params, fails) ==
  /\ impl = "cache-redis"
  /\ MayFail(fails)
  /\ LET key == generateCacheKeyR(userId, endpoint, params)
     IN /\ fallbackCache' = FallbackAfterGetR(userId, endpoint, params, fails)
        /\ lastOp' = [op |-> "get", user |-> userId, key |-> key,
                      result |-> getCachedDataR(userId, endpoint, params, fails),
                      evicted |-> key \in (DOMAIN fallbackCache)
                                            \ (DOMAIN fallbackCache'),
                      failed |-> fails]
  /\ UNCHANGED << envVars, cache, redisClient, redis, inval, reqs >>

\* The client emits 'error': redisClient = null.
RedisError ==
  /\ impl = "cache-redis"
  /\ redisClient = "open"
  /\ redisClient' = "null"
  /\ lastOp' = [op |-> "error"]
  /\ UNCHANGED << envVars, cache, redis, fallbackCache, inval, reqs >>

Init ==
  /\ calls = NoCalls
  /\ impl \in {"cache", "cache-redis"}
  /\ now = 0
  /\ ticks = 0
  /\ db = 0
  /\ cache = NoEntries
  /\ redisClient \in (IF impl = "cache-redis" THEN {"open", "null"} ELSE {"null"})
  /\ redis = NoEntries
  /\ fallbackCache = NoEntries
  /\ inval = [pc |-> "idle"]
  /\ reqs = [s \in 1..MaxInFlight |-> IdleReq]
  /\ conn = Settled
  /\ lastOp = [op |-> "none"]

Next ==
  \/ \E s \in DOMAIN reqs, method \in Methods, user \in Tenants \cup {NoUser},
        route \in CacheRoutes :
       \E query \in route.queries : Request(s, method, user, route, query)
  \/ \E s \in DOMAIN reqs : RunHandler(s)
  \/ \E s \in DOMAIN reqs : Send(s)
  \/ \E userId \in Tenants, endpoint \in {sBudgets, sBudget, Null} :
       Invalidate(userId, endpoint)
  \/ \E userId \in Tenants, endpoint \in ApiEndpoints, params \in ApiParams,
        ttl \in ApiTtls :
       SetCached(userId, endpoint, params, ttl)
  \/ \E userId \in Tenants, endpoint \in ApiEndpoints, params \in ApiParams :
       GetCached(userId, endpoint, params)
  \/ ClearAll
  \/ \E s \in DOMAIN reqs, method \in Methods, user \in Tenants \cup {NoUser},
        route \in RedisRoutes, fails \in BOOLEAN :
       \E query \in route.queries : RequestR(s, method, user, route, query, fails)
  \/ \E s \in DOMAIN reqs, fails \in BOOLEAN : SendR(s, fails)
  \/ \E userId \in Tenants, endpoint \in {sConnections, Null}, fails \in BOOLEAN :
       InvalidateR(userId, endpoint, fails)
  \/ \E fails \in BOOLEAN : InvalidateDelR(fails)
  \/ \E userId \in Tenants, endpoint \in ApiEndpoints, params \in ApiParams,
        ttl \in ApiTtls, fails \in BOOLEAN :
       SetCachedR(userId, endpoint, params, ttl, fails)
  \/ \E userId \in Tenants, endpoint \in ApiEndpoints, params \in ApiParams,
        fails \in BOOLEAN :
       GetCachedR(userId, endpoint, params, fails)
  \/ RedisError

Spec == Init /\ [][Next]_vars

(***************************************************************************)
(* Calls of the key derivation on their own                                *)
(***************************************************************************)

MaxKeyParams == 2

sA == << "a" >>
sAB == << "a", "b" >>
\* A value that holds the pair separator and a second pair: 1&ab=2
sOneAmpAbEqTwo == << "1", "&", "a", "b", "=", "2" >>

KeyTenants == {1, 2, 12}
KeyEndpoints == {sBudgets, sBudget}
KeyNames == {sA, sAB}
KeyValues == {VStr(sOne), VStr(sTwo), VStr(sOneAmpAbEqTwo), VUndefined}

\* The objects with at most n entries: sequences of entries, names distinct.
ObjectsUpTo(names, values, n) ==
  UNION { { e \in [1..k -> [name : names, value : values]] :
              \A i, j \in 1..k : i # j => e[i].name # e[j].name } :
          k \in 0..n }

\* { limit: 10 }
LimitTen == PObj(<< [name |-> sLimit, value |-> VNum(10)] >>)

KeyParams ==
  { POther(k) : k \in NonObjectKinds }
    \cup { PObj(e) : e \in ObjectsUpTo(KeyNames, KeyValues, MaxKeyParams) }
    \cup { LimitTen }

\* Two calls on the same endpoint, not yet made.
InitKey ==
  /\ \E a, b \in KeyTenants, e \in KeyEndpoints, p1, p2 \in KeyParams :
       calls = << [userId |-> a, endpoint |-> e, params |-> p1,
                   done |-> FALSE, key |-> << >>],
                  [userId |-> b, endpoint |-> e, params |-> p2,
                   done |-> FALSE, key |-> << >>] >>
  /\ impl = "key"
  /\ now = 0
  /\ ticks = 0
  /\ db = 0
  /\ cache = << >>
  /\ redisClient = "null"
  /\ redis = << >>
  /\ fallbackCache = << >>
  /\ inval = [pc |-> "idle"]
  /\ reqs = << >>
  /\ conn = Settled
  /\ lastOp = [op |-> "none"]

\* The next call is made: generateCacheKey(userId, endpoint, params).
DeriveKey(i) ==
  /\ impl = "key"
  /\ i \in 1..Len(calls)
  /\ ~calls[i].done
  /\ \A j \in 1..(i - 1) : calls[j].done
  /\ calls' = [calls EXCEPT
                 ![i].key = generateCacheKey(calls[i].userId, calls[i].endpoint,
                                             calls[i].params),
                 ![i].done = TRUE]
  /\ UNCHANGED << impl, now, ticks, db, conn, cache, redisVars, reqs, lastOp >>

NextKey == \E i \in 1..2 : DeriveKey(i)

SpecKey == InitKey /\ [][NextKey]_vars

BothDone == Len(calls) = 2 /\ calls[1].done /\ calls[2].done

\* The set of an object's entries, whatever their insertion order.
EntrySet(params) ==
  LET e == NormalizeParams(params) IN { e[i] : i \in 1..Len(e) }

(***************************************************************************)
(* Properties of the key derivation                                        *)
(***************************************************************************)

\* The decimal text of the tenant identities, written out.
TenantText == (1 :> << "1" >>) @@ (2 :> << "2" >>) @@ (12 :> << "1", "2" >>)

\* The text of a parameter value, written out.
ValueText(val) ==
  IF val.t = "undefined" THEN << "u", "n", "d", "e", "f", "i", "n", "e", "d" >>
  ELSE IF val.t = "number" /\ val.v = 10 THEN << "1", "0" >>
  ELSE val.v

\* The key the documentation describes: user:<t>:<e>, and for an object with
\* entries a colon and the name=value pairs, ascending by name, joined by &.
RECURSIVE PairsText(_)
PairsText(entrySet) ==
  IF entrySet = {} THEN << >>
  ELSE LET first == CHOOSE x \in entrySet :
                      \A y \in entrySet \ {x} : StrLess(x.name, y.name)
           rest == PairsText(entrySet \ {first})
       IN first.name \o << "=" >> \o ValueText(first.value)
            \o (IF rest = << >> THEN << >> ELSE << "&" >> \o rest)

DocumentedKey(userId, endpoint, params) ==
  LET prefix == << "u", "s", "e", "r", ":" >> \o TenantText[userId]
                  \o << ":" >> \o endpoint
  IN IF EntrySet(params) = {} THEN prefix
     ELSE prefix \o << ":" >> \o PairsText(EntrySet(params))

\* C2: two calls with different tenant identities and the same endpoint and
\* parameters return different keys.
C2_TenantsGetDistinctKeys ==
  (BothDone /\ calls[1].userId # calls[2].userId
            /\ calls[1].params = calls[2].params)
    => calls[1].key # calls[2].key

C2_Witness ==
  /\ BothDone
  /\ calls[1].userId = 1 /\ calls[2].userId = 12
  /\ calls[1].params = calls[2].params
  /\ Len(NormalizeParams(calls[1].params)) = 2
  /\ calls[1].key # calls[2].key

\* C3: for one tenant and endpoint, two objects holding the same entries in
\* different insertion orders give the identical key.
C3_InsertionOrderIrrelevant ==
  (BothDone /\ calls[1].userId = calls[2].userId
            /\ calls[1].params.kind = "object"
            /\ calls[2].params.kind = "object"
            /\ EntrySet(calls[1].params) = EntrySet(calls[2].params))
    => calls[1].key = calls[2].key

C3_Witness ==
  /\ BothDone
  /\ calls[1].userId = calls[2].userId
  /\ calls[1].params.kind = "object"
  /\ calls[2].params.kind = "object"
  /\ calls[1].params # calls[2].params
  /\ EntrySet(calls[1].params) = EntrySet(calls[2].params)
  /\ calls[1].key = calls[2].key

\* C4: the key is exactly user:<t>:<e> when the parameters are omitted,
\* undefined, null, a non-object or an empty object, and otherwise
\* user:<t>:<e>: followed by the name=value pairs sorted by name and joined
\* by &; (1, budgets, {limit: 10}) gives user:1:budgets:limit=10.
C4_KeyFormat ==
  \A i \in 1..Len(calls) :
    calls[i].done =>
      calls[i].key = DocumentedKey(calls[i].userId, calls[i].endpoint,
                                   calls[i].params)

C4_Witness ==
  /\ BothDone
  /\ calls[1].userId = 1 /\ calls[1].endpoint = sBudgets
  /\ calls[1].params = POther("null")
  /\ calls[1].key = << "u", "s", "e", "r", ":", "1", ":",
                       "b", "u", "d", "g", "e", "t", "s" >>
  /\ calls[2].userId = 1
  /\ calls[2].params = LimitTen
  /\ calls[2].key = << "u", "s", "e", "r", ":", "1", ":",
                       "b", "u", "d", "g", "e", "t", "s", ":",
                       "l", "i", "m", "i", "t", "=", "1", "0" >>

\* The entries' values are strings or undefined.
StringValued(params) ==
  \A x \in EntrySet(params) : x.value.t \in {"string", "undefined"}

KeyPrefix(userId, endpoint) ==
  sUser \o sColon \o NumToString(userId) \o sColon \o endpoint

\* key is user:<userId>:<endpoint> followed by nothing or by a parameter
\* suffix.
KeyOfEndpoint(key, userId, endpoint) ==
  \/ key = KeyPrefix(userId, endpoint)
  \/ StartsWith(key, KeyPrefix(userId, endpoint) \o sColon)

\* key is derived for the user: it starts with user:<userId>:
KeyOfUser(key, userId) ==
  StartsWith(key, sUser \o sColon \o NumToString(userId) \o sColon)

\* The backend in use holds an unexpired entry for the key.
ActiveHolds(key) ==
  IF impl = "cache" THEN key \in DOMAIN cache /\ ~Expired(cache[key], now)
  ELSE IF RedisActive
       THEN key \in DOMAIN redis /\ ~RedisExpired(redis[key], now)
       ELSE key \in DOMAIN fallbackCache /\ ~Expired(fallbackCache[key], now)

\* The response body that entry holds, as sent on the wire.
ActiveText(key) ==
  IF impl = "cache" THEN JSONStringify(cache[key].v)
  ELSE IF RedisActive THEN redis[key].v
       ELSE JSONStringify(fallbackCache[key].v)

\* The owners of the payloads the stores hold.
StoredOwners ==
  { cache[k].v.owner : k \in DOMAIN cache }
    \cup { JSONParse(redis[k].v).owner : k \in DOMAIN redis }
    \cup { fallbackCache[k].v.owner : k \in DOMAIN fallbackCache }

\* The options of the route with that endpoint name.
RouteOf(endpoint) ==
  CHOOSE route \in CacheRoutes \cup RedisRoutes : route.endpoint = endpoint

\* In this step the request of slot s passes the gate towards its handler.
PassesGate(s) == reqs[s].pc = "idle" /\ reqs'[s].pc = "handler"

\* In this step the response of the request of slot s is sent.
IsSent(s) == reqs[s].pc = "send" /\ reqs'[s].pc = "idle"

\* C1: a get, or a hit of the gate, for a key derived for one tenant never
\* returns a payload stored under a key derived for another tenant: what it
\* returns is owned by the asking tenant, and every stored payload lies
\* under a key of its owner only.
C1_Isolation ==
  /\ (lastOp.op = "get" /\ Truthy(lastOp.result))
       => lastOp.result.owner = lastOp.user
  /\ lastOp.op = "hit" => lastOp.response.owner = lastOp.user
  /\ \A B \in Tenants :
       /\ \A k \in DOMAIN cache : KeyOfUser(k, B) => cache[k].v.owner = B
       /\ \A k \in DOMAIN redis :
            KeyOfUser(k, B) => JSONParse(redis[k].v).owner = B
       /\ \A k \in DOMAIN fallbackCache :
            KeyOfUser(k, B) => fallbackCache[k].v.owner = B

\* Tenant 2 is answered from the cache while the stores hold a payload of
\* tenant 1.
C1_Witness ==
  /\ lastOp.op = "hit"
  /\ lastOp.user = 2
  /\ 1 \in StoredOwners

\* C6 as stated: a GET with a tenant for whose key the backend in use holds
\* an unexpired entry is answered with exactly that payload and its handler
\* does not run.
C6_HitShortCircuit ==
  [][\A s \in DOMAIN reqs :
       /\ (PassesGate(s) /\ reqs'[s].method = "GET" /\ reqs'[s].user # NoUser)
            => ~ActiveHolds(generateCacheKey(reqs'[s].user, reqs'[s].endpoint,
                                             PObj(reqs'[s].args)))
       /\ lastOp'.op = "hit"
            => /\ ActiveHolds(lastOp'.key)
               /\ JSONStringify(lastOp'.response) = ActiveText(lastOp'.key)
               /\ lastOp'.handlerRuns = 0
               /\ reqs' = reqs]_vars

\* C6, with the read succeeding: a GET with a tenant for whose key the
\* backend in use holds an unexpired entry, and whose read of that backend
\* does not fail, is answered with exactly that payload and its handler does
\* not run.
C6_HitShortCircuitWhenReadSucceeds ==
  [][\A s \in DOMAIN reqs :
       /\ (PassesGate(s) /\ reqs'[s].method = "GET" /\ reqs'[s].user # NoUser
             /\ ~lastOp'.failed)
            => ~ActiveHolds(generateCacheKey(reqs'[s].user, reqs'[s].endpoint,
                                             PObj(reqs'[s].args)))
       /\ (lastOp'.op = "hit" /\ ~lastOp'.failed)
            => /\ ActiveHolds(lastOp'.key)
               /\ JSONStringify(lastOp'.response) = ActiveText(lastOp'.key)
               /\ lastOp'.handlerRuns = 0
               /\ reqs' = reqs]_vars

\* A request has just been answered from Redis.
C6_Witness ==
  /\ lastOp.op = "hit"
  /\ ~lastOp.failed
  /\ impl = "cache-redis"
  /\ RedisActive
  /\ lastOp.response.form = "parsed"

\* C7: when the response of a request that missed is sent, a 2xx response
\* is stored under the derived key with the time to live of the route, and a
\* response of any other status leaves every store as it was.
C7_StoreIffSuccess ==
  [][\A s \in DOMAIN reqs :
       (IsSent(s) /\ reqs[s].wrapped) =>
         LET r == reqs[s]
             key == generateCacheKey(r.user, r.endpoint, PObj(r.args))
             expires == now + RouteOf(r.endpoint).ttl
         IN /\ lastOp'.handlerRuns = 1
            /\ IF r.statusCode >= 200 /\ r.statusCode < 300
               THEN \/ /\ impl = "cache"
                       /\ key \in DOMAIN cache'
                       /\ cache'[key] = [v |-> r.data, t |-> expires]
                    \/ /\ impl = "cache-redis"
                       /\ key \in DOMAIN redis'
                       /\ redis'[key] = [v |-> JSONStringify(r.data), t |-> expires]
                       /\ UNCHANGED fallbackCache
                    \/ /\ impl = "cache-redis"
                       /\ key \in DOMAIN fallbackCache'
                       /\ fallbackCache'[key] = [v |-> r.data, t |-> expires]
                       /\ UNCHANGED redis
               ELSE UNCHANGED << cache, redis, fallbackCache >>]_vars

\* A 404 of a request that missed has been sent while the cache holds an
\* entry stored with the time to live of its route.
C7_Witness ==
  /\ lastOp.op = "sent"
  /\ lastOp.wrapped
  /\ lastOp.statusCode = 404
  /\ \E k \in DOMAIN cache : cache[k].t = now + BudgetTtl

\* C8: a request whose method is not GET passes the gate without any cache
\* operation: the stores stay as they were when it passes and when its
\* response is sent, and its send is not wrapped.
C8_NonGetPassThrough ==
  [][\A s \in DOMAIN reqs :
       /\ (PassesGate(s) /\ reqs'[s].method # "GET")
            => /\ lastOp'.op = "pass"
               /\ ~reqs'[s].wrapped
               /\ UNCHANGED << cache, redis, fallbackCache >>
       /\ (IsSent(s) /\ reqs[s].method # "GET")
            => /\ ~lastOp'.wrapped
               /\ UNCHANGED << cache, redis, fallbackCache >>]_vars

\* The response of a tenant's request that was not cached has been sent
\* (its method is not GET) while the stores hold an entry.
C8_Witness ==
  /\ lastOp.op = "sent"
  /\ ~lastOp.wrapped
  /\ lastOp.user \in Tenants
  /\ StoredOwners # {}

\* C9: a request without a tenant passes the gate without any cache
\* operation: it is not answered from the cache, its response is not stored,
\* and the stores stay as they were until it completes.
C9_NoTenantPassThrough ==
  [][\A s \in DOMAIN reqs :
       /\ (PassesGate(s) /\ reqs'[s].user = NoUser)
            => /\ lastOp'.op = "pass"
               /\ ~reqs'[s].wrapped
               /\ UNCHANGED << cache, redis, fallbackCache >>
       /\ (IsSent(s) /\ reqs[s].user = NoUser)
            => /\ ~lastOp'.wrapped
               /\ lastOp'.handlerRuns = 1
               /\ UNCHANGED << cache, redis, fallbackCache >>
       /\ lastOp'.op = "hit" => lastOp'.user # NoUser]_vars

\* The response of a GET without a tenant has been sent while the stores
\* hold an entry.
C9_Witness ==
  /\ lastOp.op = "sent"
  /\ lastOp.user = NoUser
  /\ ~lastOp.wrapped
  /\ StoredOwners # {}

\* C10: invalidate(A, 'budgets') removes every stored key user:A:budgets
\* with any parameter suffix, and removes no key of A for 'categories' and
\* no key of another tenant for 'budgets'.
C10_InvalidationScoping ==
  (lastOp.op = "invalidate" /\ lastOp.endpoint = sBudgets) =>
    /\ \A k \in DOMAIN cache : ~KeyOfEndpoint(k, lastOp.user, sBudgets)
    /\ \A k \in lastOp.removed :
         /\ ~KeyOfEndpoint(k, lastOp.user, sCategories)
         /\ \A B \in Tenants \ {lastOp.user} : ~KeyOfEndpoint(k, B, sBudgets)

\* C11: invalidate(t, e) with an endpoint removes every entry of tenant t
\* for endpoint e and no entry of tenant t for another endpoint, also when e
\* is the beginning of the other endpoint's name ('budget', 'budgets'); as
\* routes/budgets.js calls it on the cache of cache.js.
C11_InvalidateExactEndpoint ==
  (impl = "cache" /\ lastOp.op = "invalidate" /\ lastOp.endpoint # Null) =>
    /\ \A k \in DOMAIN cache : ~KeyOfEndpoint(k, lastOp.user, lastOp.endpoint)
    /\ \A k \in lastOp.removed :
         KeyOfUser(k, lastOp.user)
           => KeyOfEndpoint(k, lastOp.user, lastOp.endpoint)

\* C12: invalidate(t) without an endpoint removes every stored entry of
\* tenant t and no entry of another tenant.
C12_InvalidateAllOfTenant ==
  (lastOp.op = "invalidate" /\ lastOp.endpoint = Null) =>
    /\ impl = "cache" => \A k \in DOMAIN cache : ~KeyOfUser(k, lastOp.user)
    /\ \A k \in lastOp.removed : KeyOfUser(k, lastOp.user)

\* In this step a GET of the tenant and endpoint of the invalidation that
\* has just completed is answered from the cache.
HitRightAfterInvalidate ==
  /\ lastOp.op = "invalidate"
  /\ lastOp.endpoint # Null
  /\ lastOp'.op = "hit"
  /\ lastOp'.user = lastOp.user
  /\ KeyOfEndpoint(lastOp'.key, lastOp.user, lastOp.endpoint)

\* C13: once invalidate(t, e) has completed, the next GET by t at e, with
\* no other request in between, is not answered from the cache: it misses
\* and its handler runs again.
C13_MissAfterInvalidate == [][~HitRightAfterInvalidate]_vars

\* The same, for the routes of routes/budgets.js on cache.js alone.
C13_MissAfterInvalidateInMemory ==
  [][impl = "cache" => ~HitRightAfterInvalidate]_vars

(***************************************************************************)
(* The caches over time: one tenant, one route of each module, direct      *)
(* calls, invalidations and the clock                                      *)
(***************************************************************************)

NextTtl ==
  \/ \E s \in DOMAIN reqs : Request(s, "GET", 1, BudgetsOptions, NoQuery)
  \/ \E s \in DOMAIN reqs : RunHandler(s)
  \/ \E s \in DOMAIN reqs : Send(s)
  \/ Invalidate(1, sBudgets)
  \/ \E endpoint \in ApiEndpoints, params \in ApiParams, ttl \in ApiTtls :
       SetCached(1, endpoint, params, ttl)
  \/ \E endpoint \in ApiEndpoints, params \in ApiParams :
       GetCached(1, endpoint, params)
  \/ \E s \in DOMAIN reqs, fails \in BOOLEAN :
       RequestR(s, "GET", 1, ConnectionsOptions, NoQuery, fails)
  \/ \E s \in DOMAIN reqs, fails \in BOOLEAN : SendR(s, fails)
  \/ \E fails \in BOOLEAN : InvalidateR(1, Null, fails)
  \/ \E fails \in BOOLEAN : InvalidateDelR(fails)
  \/ \E endpoint \in ApiEndpoints, params \in ApiParams, ttl \in ApiTtls,
        fails \in BOOLEAN :
       SetCachedR(1, endpoint, params, ttl, fails)
  \/ \E endpoint \in ApiEndpoints, params \in ApiParams, fails \in BOOLEAN :
       GetCachedR(1, endpoint, params, fails)
  \/ RedisError
  \/ Tick

SpecTtl == Init /\ [][NextTtl]_vars

\* The entries of a NodeCache that have not expired.
Live(c, time) ==
  [k \in { k \in DOMAIN c : ~Expired(c[k], time) } |-> c[k]]

\* In this step get(k) is the first operation after set(k, v, ttl); only
\* time has passed in between.
GetAfterSet ==
  /\ lastOp.op = "set"
  /\ lastOp'.op = "get"
  /\ lastOp'.key = lastOp.key

\* What the get of this step must return after the set before it: v before
\* ttl seconds have passed, nothing after.
RoundTripHolds ==
  LET ttl == IF lastOp.ttl # 0 THEN lastOp.ttl ELSE DefaultTtl
      elapsed == now - lastOp.at
  IN /\ elapsed < ttl
          => /\ Truthy(lastOp'.result)
             /\ JSONStringify(lastOp'.result) = JSONStringify(lastOp.data)
     /\ elapsed > ttl => ~Truthy(lastOp'.result)

\* A get leaves every unexpired entry as it was, so that what holds for the
\* first get after a set holds for every later one.
GetKeepsLiveEntries ==
  (lastOp'.op = "get" /\ now' = now) =>
    /\ Live(cache', now) = Live(cache, now)
    /\ Live(fallbackCache', now) = Live(fallbackCache, now)
    /\ redis' = redis

TtlOfKey(key) ==
  LET routes == { route \in CacheRoutes \cup RedisRoutes :
                    \E userId \in Tenants :
                      KeyOfEndpoint(key, userId, route.endpoint) }
  IN IF routes = {} THEN DefaultTtl ELSE (CHOOSE route \in routes : TRUE).ttl

\* Every entry has an expiry instant, no later than its time to live from
\* now.
EntriesWithinTtl ==
  /\ \A k \in DOMAIN cache :
       cache[k].t > 0 /\ cache[k].t <= now + TtlOfKey(k)
  /\ \A k \in DOMAIN fallbackCache :
       fallbackCache[k].t > 0 /\ fallbackCache[k].t <= now + TtlOfKey(k)
  /\ \A k \in DOMAIN redis :
       redis[k].t > 0 /\ redis[k].t <= now + TtlOfKey(k)

\* The payload served for the key is that of an entry whose expiry instant
\* has not passed.
ServedWithinTtl(key, payload) ==
  IF impl = "cache"
  THEN /\ key \in DOMAIN cache
       /\ cache[key].v = payload
       /\ now <= cache[key].t
  ELSE IF payload.form = "parsed"
       THEN /\ key \in DOMAIN redis
            /\ redis[key].v = JSONStringify(payload)
            /\ now < redis[key].t
       ELSE /\ key \in DOMAIN fallbackCache
            /\ fallbackCache[key].v = payload
            /\ now <= fallbackCache[key].t

\* C15: no entry is served after its time to live has passed since it was
\* stored: whatever a hit of the gate or a get returns is the payload of an
\* entry that has not expired, and every entry expires within its time to
\* live; with Redis commands failing, the client dropping and invalidations
\* interleaved in any way.
C15_NothingServedAfterTtl ==
  [][/\ EntriesWithinTtl
     /\ (now' = now /\ lastOp'.op = "hit")
          => ServedWithinTtl(lastOp'.key, lastOp'.response)
     /\ (now' = now /\ lastOp'.op = "get" /\ Truthy(lastOp'.result))
          => ServedWithinTtl(lastOp'.key, lastOp'.result)]_vars

\* A GET has missed on Redis, which still has the expired entry of its key.
C15_Witness ==
  /\ lastOp.op = "miss"
  /\ ~lastOp.failed
  /\ RedisActive
  /\ \E s \in DOMAIN reqs :
       /\ reqs[s].pc = "handler"
       /\ reqs[s].wrapped
       /\ reqs[s].cacheKey \in DOMAIN redis
       /\ redis[reqs[s].cacheKey].t <= now

\* C16: once the Redis client has been dropped (redisClient = null) it
\* stays dropped, and no later get, set or invalidation reaches Redis: the
\* contents of Redis stay as they are and nothing that is served was read
\* from it.
C16_DemotionOneWay ==
  [][(impl = "cache-redis" /\ redisClient = "null") =>
       /\ redisClient' = "null"
       /\ redis' = redis
       /\ (now' = now /\ lastOp'.op = "hit") => lastOp'.response.form # "parsed"
       /\ (now' = now /\ lastOp'.op = "get" /\ Truthy(lastOp'.result))
            => lastOp'.result.form # "parsed"]_vars

\* After the client was dropped while Redis held an entry, a response has
\* been stored in the fallback cache and a GET has been answered from it.
C16_Witness ==
  /\ impl = "cache-redis"
  /\ redisClient = "null"
  /\ redis # NoEntries
  /\ fallbackCache # NoEntries
  /\ lastOp.op = "hit"

\* The last operation was one that calls the cache, and its Redis command
\* threw.
RemoteCallFailed(last) ==
  /\ last.op \in {"hit", "miss", "get", "set", "sent", "invalidate", "keys"}
  /\ last.failed

\* C17: an error thrown by a single Redis get, set, key listing or delete
\* drops the client at once, so that the next operation does not call
\* Redis.
C17_ErrorDemotes == RemoteCallFailed(lastOp) => redisClient = "null"

\* C18: when a Redis command fails, a read is a miss (the caller gets
\* nothing, a request goes on to its handler) and a write or an invalidation
\* changes no entry of either store.
C18_FailureIsMissOrNoOp ==
  [][RemoteCallFailed(lastOp') =>
       /\ lastOp'.op # "hit"
       /\ lastOp'.op = "get" => ~Truthy(lastOp'.result)
       /\ lastOp'.op \in {"set", "sent", "invalidate"}
            => UNCHANGED << redis, fallbackCache >>]_vars

(***************************************************************************)
(* One tenant using /connections one request at a time: a GET, or a        *)
(* mutation (routes/connections.js POST, DELETE) whose handler writes the  *)
(* database and then calls invalidateUserCache; the next request starts    *)
(* when the invalidation has completed                                     *)
(***************************************************************************)

\* No request is being handled and no invalidation is under way.
Quiet ==
  /\ \A s \in DOMAIN reqs : reqs[s].pc = "idle"
  /\ inval.pc = "idle"
  /\ lastOp.op # "write"

\* GET /connections arrives.
GetSeq(s, fails) ==
  /\ Quiet
  /\ RequestR(s, "GET", 1, ConnectionsOptions, NoQuery, fails)

\* The mutating handler's write returns.
WriteSeq ==
  /\ impl = "cache-redis"
  /\ Quiet
  /\ DbWrite

\* The mutating handler calls invalidateUserCache(request.user.id,
\* 'connections') after its write.
InvalidateSeq(fails) ==
  /\ lastOp.op = "write"
  /\ InvalidateR(1, sConnections, fails)

\* The client emits 'error' while a request or an invalidation is under way
\* or between two requests.
RedisErrorSeq ==
  /\ lastOp.op # "write"
  /\ RedisError

NextSeq ==
  \/ \E s \in DOMAIN reqs, fails \in BOOLEAN : GetSeq(s, fails)
  \/ \E s \in DOMAIN reqs : impl = "cache-redis" /\ RunHandler(s)
  \/ \E s \in DOMAIN reqs, fails \in BOOLEAN : SendR(s, fails)
  \/ WriteSeq
  \/ \E fails \in BOOLEAN : InvalidateSeq(fails)
  \/ \E fails \in BOOLEAN : InvalidateDelR(fails)
  \/ RedisErrorSeq

SpecSeq == Init /\ [][NextSeq]_vars

\* C19: whatever Redis commands fail and whenever the client is dropped, a
\* GET is never answered from the cache with a payload stored before an
\* invalidation that completed before the GET began: with every write
\* followed by its invalidation and requests one at a time, a payload served
\* from the cache is the data as last written.
C19_NoStalePayloadAfterInvalidate ==
  lastOp.op = "hit" => lastOp.response.ver = db

(***************************************************************************)
(* cache-redis.js with a Redis whose every command fails                   *)
(***************************************************************************)

NextFail ==
  \/ \E s \in DOMAIN reqs, user \in Tenants, route \in RedisRoutes :
       \E query \in route.queries :
         RequestR(s, "GET", user, route, query, RedisActive)
  \/ \E s \in DOMAIN reqs : impl = "cache-redis" /\ RunHandler(s)
  \/ \E s \in DOMAIN reqs :
       SendR(s, RedisActive /\ reqs[s].wrapped /\ reqs[s].statusCode = 200)
  \/ \E userId \in Tenants, endpoint \in {sConnections, Null} :
       InvalidateR(userId, endpoint, RedisActive)
  \/ \E userId \in Tenants, endpoint \in ApiEndpoints, params \in ApiParams,
        ttl \in ApiTtls :
       SetCachedR(userId, endpoint, params, ttl, RedisActive)
  \/ \E userId \in Tenants, endpoint \in ApiEndpoints, params \in ApiParams :
       GetCachedR(userId, endpoint, params, RedisActive)
  \/ RedisError

SpecFail == Init /\ [][NextFail]_vars

\* C20: with every Redis command failing, a get after a set returns what
\* was set, an invalidation leaves no entry that matches it, and every call
\* and request completes as without the cache: the response sent is the
\* handler's.
C20_FallbackTransparency ==
  [][/\ GetAfterSet
          => /\ Truthy(lastOp'.result)
             /\ JSONStringify(lastOp'.result) = JSONStringify(lastOp.data)
     /\ lastOp'.op = "invalidate"
          => \A k \in (DOMAIN redis') \cup (DOMAIN fallbackCache') :
               IF lastOp'.endpoint = Null
               THEN ~KeyOfUser(k, lastOp'.user)
               ELSE ~KeyOfEndpoint(k, lastOp'.user, lastOp'.endpoint)
     /\ \A s \in DOMAIN reqs :
          IsSent(s) => /\ lastOp'.op = "sent"
                       /\ lastOp'.response = reqs[s].data
                       /\ lastOp'.handlerRuns = 1]_vars

\* A get whose Redis command failed has returned what was set.
C20_Witness ==
  /\ lastOp.op = "get"
  /\ lastOp.failed
  /\ RedisActive
  /\ Truthy(lastOp.result)

(***************************************************************************)
(* The gate of both modules on routes with and without a key generator,    *)
(* for requests with no user, with the user id 0 and with the user id 1    *)
(***************************************************************************)

GateUsers == {NoUser, 0, 1}

\* cacheMiddleware({ ttl, endpoint, keyGenerator }) on a route.
WithKeyGenerator(route, kind) == [route EXCEPT !.keyGenerator = kind]

GateRoutes ==
  {BudgetsOptions, WithKeyGenerator(BudgetsOptions, "url"),
   WithKeyGenerator(BudgetsOptions, "throws")}

GateRoutesR ==
  {ConnectionsOptions, WithKeyGenerator(ConnectionsOptions, "url"),
   WithKeyGenerator(ConnectionsOptions, "throws")}

NextGate ==
  \/ \E s \in DOMAIN reqs, user \in GateUsers, route \in GateRoutes :
       Request(s, "GET", user, route, NoQuery)
  \/ \E s \in DOMAIN reqs : RunHandler(s)
  \/ \E s \in DOMAIN reqs : Send(s)
  \/ \E s \in DOMAIN reqs, user \in GateUsers, route \in GateRoutesR,
        fails \in BOOLEAN :
       RequestR(s, "GET", user, route, NoQuery, fails)
  \/ \E s \in DOMAIN reqs, fails \in BOOLEAN : SendR(s, fails)
  \/ RedisError

SpecGate == Init /\ [][NextGate]_vars

\* C21: when deriving the key (a key generator of the route included) or
\* querying the backend fails during a GET with a tenant identity, the gate
\* does what it does on a miss: the request is not rejected and it is not
\* answered without the route handler having run.
C21_CacheFailureIsMiss ==
  /\ lastOp.op # "rejected"
  /\ (lastOp.op = "hit" => ~lastOp.failed)

(***************************************************************************)
(* The mutating routes of routes/budgets.js, routes/connections.js and     *)
(* routes/splits-enhanced.js, next to the cached GET routes of a tenant    *)
(***************************************************************************)

sSplits == << "s", "p", "l", "i", "t", "s" >>

\* GET /connections/:id
ConnectionOptions ==
  [endpoint |-> sConnection, ttl |-> ConnectionsTtl, withId |-> TRUE,
   statuses |-> {200, 404, 500}, queries |-> {NoQuery},
   keyGenerator |-> "none"]

\* A mutating route: the module its invalidateUserCache comes from, whether
\* the request is validated before the write (by the handler or by the
\* schema of the route), the endpoints it invalidates after the write, in
\* order, and the status codes of its success and of its catch block.
BudgetsPost ==
  [name |-> "POST /budgets", module |-> "cache", validates |-> TRUE,
   invalidates |-> << sBudgets >>, ok |-> 201, errors |-> {500}]
BudgetsPut ==
  [name |-> "PUT /budgets/:id", module |-> "cache", validates |-> TRUE,
   invalidates |-> << sBudgets, sBudget >>, ok |-> 200, errors |-> {404, 500}]
BudgetsDelete ==
  [name |-> "DELETE /budgets/:id", module |-> "cache", validates |-> FALSE,
   invalidates |-> << sBudgets, sBudget >>, ok |-> 200, errors |-> {404, 500}]
ConnectionsPost ==
  [name |-> "POST /connections", module |-> "cache-redis", validates |-> TRUE,
   invalidates |-> << sConnections >>, ok |-> 201, errors |-> {400}]
ConnectionsDelete ==
  [name |-> "DELETE /connections/:id", module |-> "cache-redis",
   validates |-> FALSE,
   invalidates |-> << sConnections >>, ok |-> 200, errors |-> {400}]
SplitsPost ==
  [name |-> "POST /splits", module |-> "cache-redis", validates |-> TRUE,
   invalidates |-> << sSplits >>, ok |-> 201, errors |-> {400}]
SplitsPatch ==
  [name |-> "PATCH /splits/:id/participants/:participantId/paid",
   module |-> "cache-redis", validates |-> TRUE,
   invalidates |-> << sSplits >>, ok |-> 200, errors |-> {400}]
SplitsDelete ==
  [name |-> "DELETE /splits/:id", module |-> "cache-redis", validates |-> TRUE,
   invalidates |-> << sSplits >>, ok |-> 200, errors |-> {400}]

MutationRoutes ==
  {BudgetsPost, BudgetsPut, BudgetsDelete, ConnectionsPost, ConnectionsDelete,
   SplitsPost, SplitsPatch, SplitsDelete}

\* A handler that invalidates whether or not the write returned.
InvalidatesAlways(m, wrote) == m.invalidates

\* The endpoints a mutating handler passes to invalidateUserCache: those after
\* the awaited write when it returned, none when it threw (the catch block
\* has no invalidation).
InvalidatesAfter(m, wrote) == IF wrote THEN m.invalidates ELSE << >>

\* A handler whose response depends on the outcome of the invalidation.
MutationStatusFailing(m, wrote, error, fails) ==
  IF wrote /\ ~fails THEN m.ok ELSE error

\* The status code of a mutating handler's response: the success code when
\* the write returned, the code of the catch block when it threw; neither
\* awaits or inspects the invalidation.
MutationStatus(m, wrote, error, fails) == IF wrote THEN m.ok ELSE error

\* The invalidateUserCache calls of a cache.js handler, one after the other.
RECURSIVE InvalidateAll(_, _, _)
InvalidateAll(c, userId, endpoints) ==
  IF endpoints = << >> THEN c
  ELSE InvalidateAll(invalidateUserCache(c, userId, Head(endpoints)), userId,
                     Tail(endpoints))

\* invalidateUserCache(userId, endpoint) of cache-redis.js as the handler
\* calls it, without await: the KEYS command is issued and answered, the DEL
\* follows later; with no client, or when KEYS throws, the in-memory
\* invalidation runs at once.
InvalidateCallR(userId, endpoints, fails) ==
  IF endpoints = << >>
  THEN [inval |-> inval, fallbackCache |-> fallbackCache]
  ELSE LET endpoint == Head(endpoints)
           pattern == InvalidatePattern(userId, endpoint)
           keys == RedisKeys(redis, pattern, now)
       IN IF RedisActive /\ ~fails
          THEN [inval |-> IF keys # {}
                          THEN [pc |-> "del", user |-> userId,
                                endpoint |-> endpoint, pattern |-> pattern,
                                keys |-> keys]
                          ELSE [pc |-> "idle"],
                fallbackCache |-> fallbackCache]
          ELSE [inval |-> inval, fallbackCache |-> FallbackInvalidated(pattern)]

\* The slot of a mutating request that awaits its database call.
WritingReq(user, m) ==
  [IdleReq EXCEPT !.pc = "write", !.method = m.name, !.user = user,
                  !.statuses = m.errors, !.statusCode = m.ok]

\* The response of a mutating request.
MutationDone(user, m, statusCode, wrote, invalidated, removed, fails) ==
  [op |-> "mutation", route |-> m.name, user |-> user,
   statusCode |-> statusCode, wrote |-> wrote, invalidated |-> invalidated,
   removed |-> removed, failed |-> fails]

\* A mutating request arrives: a request that fails validation is answered
\* 400 before any database call; otherwise the handler awaits the write.
MutationStart(s, user, m, valid) ==
  /\ impl = m.module
  /\ reqs[s].pc = "idle"
  /\ ~m.validates => valid
  /\ IF ~valid
     THEN /\ UNCHANGED reqs
          /\ lastOp' = MutationDone(user, m, 400, FALSE, << >>, {}, FALSE)
     ELSE /\ reqs' = [reqs EXCEPT ![s] = WritingReq(user, m)]
          /\ lastOp' = [op |-> "validated"]
  /\ UNCHANGED << envVars, cache, redisVars >>

\* The awaited database call of a mutating handler returns or throws, and the
\* handler runs on to its response: after a returned write it calls
\* invalidateUserCache for each endpoint of the route, after a throw its
\* catch block answers with an error.
MutationWriteReturns(s, wrote, fails) ==
  /\ reqs[s].pc = "write"
  /\ wrote => db < MaxVersion
  /\ LET r == reqs[s]
         m == CHOOSE route \in MutationRoutes : route.name = r.method
         endpoints == InvalidatesAfter(m, wrote)
         afterR == InvalidateCallR(r.user, endpoints, fails)
     IN /\ fails => (impl = "cache-redis" /\ RedisActive /\ endpoints # << >>)
        /\ (impl = "cache-redis" /\ endpoints # << >>) => inval.pc = "idle"
        /\ db' = IF wrote THEN db + 1 ELSE db
        /\ cache' = IF impl = "cache" THEN InvalidateAll(cache, r.user, endpoints)
                    ELSE cache
        /\ inval' = IF impl = "cache-redis" THEN afterR.inval ELSE inval
        /\ fallbackCache' = IF impl = "cache-redis" THEN afterR.fallbackCache
                            ELSE fallbackCache
        /\ \E error \in m.errors :
             lastOp' = MutationDone(r.user, m,
                                    MutationStatus(m, wrote, error, fails),
                                    wrote, endpoints,
                                    ((DOMAIN cache) \ (DOMAIN cache'))
                                      \cup ((DOMAIN fallbackCache)
                                              \ (DOMAIN fallbackCache')),
                                    fails)
        /\ reqs' = [reqs EXCEPT ![s] = IdleReq]
  /\ UNCHANGED << calls, impl, now, ticks, conn, redisClient, redis >>

\* The cached GET routes of the two modules.
GetRoutes == {BudgetsOptions, BudgetOptions, BudgetSummaryOptions}
GetRoutesR == {ConnectionsOptions, ConnectionOptions}

NextRoutes ==
  \/ \E s \in DOMAIN reqs, route \in GetRoutes :
       Request(s, "GET", 1, route, NoQuery)
  \/ \E s \in DOMAIN reqs : RunHandler(s)
  \/ \E s \in DOMAIN reqs : Send(s)
  \/ \E s \in DOMAIN reqs, route \in GetRoutesR, fails \in BOOLEAN :
       RequestR(s, "GET", 1, route, NoQuery, fails)
  \/ \E s \in DOMAIN reqs, fails \in BOOLEAN : SendR(s, fails)
  \/ \E s \in DOMAIN reqs, m \in MutationRoutes, valid \in BOOLEAN :
       MutationStart(s, 1, m, valid)
  \/ \E s \in DOMAIN reqs, wrote \in BOOLEAN, fails \in BOOLEAN :
       MutationWriteReturns(s, wrote, fails)
  \/ \E fails \in BOOLEAN : InvalidateDelR(fails)
  \/ RedisError

SpecRoutes == Init /\ [][NextRoutes]_vars

\* Entries disappear from a store in this step.
EntriesRemoved ==
  \/ (DOMAIN cache) \ (DOMAIN cache') # {}
  \/ (DOMAIN redis) \ (DOMAIN redis') # {}
  \/ (DOMAIN fallbackCache) \ (DOMAIN fallbackCache') # {}

\* In this step a handler calls invalidateUserCache: its response records the
\* call, or entries disappear or a DEL is scheduled, other than by the DEL of
\* an invalidation called earlier.
InvalidateCalled ==
  \/ lastOp'.op = "mutation" /\ lastOp'.invalidated # << >>
  \/ lastOp'.op # "invalidate" /\ EntriesRemoved
  \/ inval.pc = "idle" /\ inval'.pc = "del"

\* C22: in every mutating route handler invalidate is called only after the
\* underlying write has returned successfully: a step in which it is called
\* is the step in which the awaited write of that request returns (the data
\* has changed), never one in which validation rejects the request or the
\* write throws, and the response is the success response.
C22_InvalidateOnlyAfterWrite ==
  [][InvalidateCalled =>
       /\ \E s \in DOMAIN reqs : reqs[s].pc = "write" /\ reqs'[s].pc = "idle"
       /\ db' = db + 1
       /\ lastOp'.op = "mutation"
       /\ lastOp'.wrote
       /\ lastOp'.statusCode \in {200, 201}]_vars

\* A write has returned and the invalidation that followed removed entries.
C22_Witness ==
  /\ lastOp.op = "mutation"
  /\ lastOp.wrote
  /\ lastOp.invalidated # << >>
  /\ lastOp.removed # {}

\* C23: a failure of invalidation never fails the mutation that triggered
\* it: once the write has returned the response is the success response of
\* the route, whether or not the Redis call of the invalidation threw, and a
\* failed invalidation is over without having touched a request.
C23_InvalidationFailureHarmless ==
  /\ (lastOp.op = "mutation" /\ lastOp.wrote)
       => lastOp.statusCode
            = (CHOOSE m \in MutationRoutes : m.name = lastOp.route).ok
  /\ (lastOp.op = "invalidate" /\ lastOp.failed) => inval.pc = "idle"

\* The KEYS call of the invalidation of a mutation threw and the mutation
\* was answered with its success response.
C23_Witness ==
  /\ lastOp.op = "mutation"
  /\ lastOp.wrote
  /\ lastOp.failed
  /\ lastOp.statusCode = 201

\* C24: after a successful POST, PUT, PATCH or DELETE of a tenant on a
\* resource family, once its invalidation is over, no GET of the tenant for
\* that family (collection or single resource) is answered from an entry
\* stored before the mutation: a response served from the cache shows the
\* data as the last mutation left it.
C24_AutoInvalidation ==
  (lastOp.op = "hit" /\ inval.pc = "idle" /\ lastOp.user = 1)
    => lastOp.response.ver >= db

\* The time to live the documentation states for the cached endpoints.
FiveMinutes == 300

\* The endpoint names of the documented cached routes that have a gate:
\* GET /budgets, /budgets/:id, /budgets/:id/summary and /connections (GET
\* /splits of routes/splits-enhanced.js has no cacheMiddleware).
DocumentedEndpoints == {sBudgets, sBudget, sBudgetSummary, sConnections}

\* C25: every entry the gate stores for a documented cached endpoint is
\* stored with a time to live of 300 seconds.
C25_FiveMinuteTtl ==
  [][\A s \in DOMAIN reqs :
       (/\ IsSent(s)
        /\ reqs[s].wrapped
        /\ reqs[s].statusCode >= 200 /\ reqs[s].statusCode < 300
        /\ reqs[s].endpoint \in DocumentedEndpoints) =>
         LET key == reqs[s].cacheKey
             stored == IF impl = "cache" THEN cache'
                       ELSE IF key \in DOMAIN redis' /\ redis' # redis
                            THEN redis' ELSE fallbackCache'
         IN /\ key \in DOMAIN stored
            /\ stored[key].t = now + FiveMinutes]_vars

(***************************************************************************)
(* The cache functions and the diagnostics of both modules called directly *)
(***************************************************************************)

\* A getCacheStats that reports no keys.
getCacheStatsNone(c) == [keys |-> 0]

\* getCacheStats() of cache.js: cache.getStats(), of which keys is the number
\* of keys the NodeCache holds.
getCacheStats(c) == [keys |-> Cardinality(NCKeys(c))]

\* getAllCacheKeys() of cache.js: cache.keys().
getAllCacheKeys(c) == NCKeys(c)

\* getCacheStats() of cache-redis.js: DBSIZE of Redis, or the statistics of
\* fallbackCache when there is no client or a command throws.
getCacheStatsR(fails) ==
  IF RedisActive /\ ~fails
  THEN [type |-> "redis", keys |-> Cardinality(RedisKeys(redis, sStar, now))]
  ELSE [type |-> "fallback", keys |-> getCacheStats(fallbackCache).keys]

\* getAllCacheKeys() of cache-redis.js: KEYS *, or the keys of fallbackCache.
getAllCacheKeysR(fails) ==
  IF RedisActive /\ ~fails THEN RedisKeys(redis, sStar, now)
  ELSE NCKeys(fallbackCache)

\* getCacheStats is called.
GetStats ==
  /\ impl = "cache"
  /\ lastOp' = [op |-> "stats", keys |-> getCacheStats(cache).keys,
                failed |-> FALSE]
  /\ UNCHANGED << envVars, cache, redisVars, reqs >>

\* getAllCacheKeys is called.
GetAllKeys ==
  /\ impl = "cache"
  /\ lastOp' = [op |-> "allkeys", keys |-> getAllCacheKeys(cache),
                failed |-> FALSE]
  /\ UNCHANGED << envVars, cache, redisVars, reqs >>

\* clearAllCache of cache.js is called, whatever the cache holds.
ClearAllCache ==
  /\ impl = "cache"
  /\ cache' = NCFlushAll(cache)
  /\ lastOp' = [op |-> "clear", failed |-> FALSE]
  /\ UNCHANGED << envVars, redisVars, reqs >>

\* getCacheStats of cache-redis.js is called.
GetStatsR(fails) ==
  /\ impl = "cache-redis"
  /\ MayFail(fails)
  /\ lastOp' = [op |-> "stats", keys |-> getCacheStatsR(fails).keys,
                failed |-> fails]
  /\ UNCHANGED << envVars, cache, redisVars, reqs >>

\* getAllCacheKeys of cache-redis.js is called.
GetAllKeysR(fails) ==
  /\ impl = "cache-redis"
  /\ MayFail(fails)
  /\ lastOp' = [op |-> "allkeys", keys |-> getAllCacheKeysR(fails),
                failed |-> fails]
  /\ UNCHANGED << envVars, cache, redisVars, reqs >>

\* clearAllCache of cache-redis.js is called: FLUSHALL, or
\* fallbackCache.flushAll() when there is no client or FLUSHALL throws.
ClearAllR(fails) ==
  /\ impl = "cache-redis"
  /\ MayFail(fails)
  /\ IF RedisActive /\ ~fails
     THEN /\ redis' = NoEntries
          /\ UNCHANGED fallbackCache
     ELSE /\ fallbackCache' = NCFlushAll(fallbackCache)
          /\ UNCHANGED redis
  /\ lastOp' = [op |-> "clear", failed |-> fails]
  /\ UNCHANGED << envVars, cache, redisClient, inval, reqs >>

NextDiag ==
  \/ \E userId \in Tenants, endpoint \in ApiEndpoints, params \in ApiParams,
        ttl \in ApiTtls :
       SetCached(userId, endpoint, params, ttl)
  \/ \E userId \in Tenants, endpoint \in ApiEndpoints, params \in ApiParams :
       GetCached(userId, endpoint, params)
  \/ GetStats
  \/ GetAllKeys
  \/ ClearAllCache
  \/ \E userId \in Tenants, endpoint \in ApiEndpoints, params \in ApiParams,
        ttl \in ApiTtls, fails \in BOOLEAN :
       SetCachedR(userId, endpoint, params, ttl, fails)
  \/ \E userId \in Tenants, endpoint \in ApiEndpoints, params \in ApiParams,
        fails \in BOOLEAN :
       GetCachedR(userId, endpoint, params, fails)
  \/ \E fails \in BOOLEAN : GetStatsR(fails)
  \/ \E fails \in BOOLEAN : GetAllKeysR(fails)
  \/ \E fails \in BOOLEAN : ClearAllR(fails)
  \/ DbWrite
  \/ RedisError

SpecDiag == Init /\ [][NextDiag]_vars

\* The keys the stores hold.
StoredKeys == (DOMAIN cache) \cup (DOMAIN redis) \cup (DOMAIN fallbackCache)

\* The store of the backend in use.
ActiveStore ==
  IF impl = "cache" THEN cache
  ELSE IF RedisActive THEN redis ELSE fallbackCache

\* The text of a stored value: Redis holds the text, a NodeCache the object.
StoredText(value) ==
  IF "text" \in DOMAIN value THEN value ELSE JSONStringify(value)

\* In this step a value is stored under a key right after the same value was
\* stored under that key.
SetRepeats == lastOp.op = "set" /\ lastOp'.op = "set" /\ lastOp'.again

\* After the second store the backend in use has an entry for the key that
\* holds the value, and it has neither gained nor lost a key.
OneEntryAfterRepeat ==
  /\ lastOp.key \in DOMAIN ActiveStore'
  /\ StoredText(ActiveStore'[lastOp.key].v) = JSONStringify(lastOp.data)
  /\ DOMAIN ActiveStore' = DOMAIN ActiveStore

\* In this step a get of the key follows the second store.
GetAfterRepeat ==
  /\ lastOp.op = "set"
  /\ lastOp.again
  /\ lastOp'.op = "get"
  /\ lastOp'.key = lastOp.key

\* The get returns the value that was stored twice.
ReturnsStored ==
  /\ Truthy(lastOp'.result)
  /\ JSONStringify(lastOp'.result) = JSONStringify(lastOp.data)

DiagnosticsAgree ==
  /\ lastOp'.op = "set" =>
       DOMAIN ActiveStore' = (DOMAIN ActiveStore) \cup {lastOp'.key}
  /\ lastOp'.op = "clear" => DOMAIN ActiveStore' = {}
  /\ lastOp'.op \notin {"set", "clear"} =>
       DOMAIN ActiveStore' = DOMAIN ActiveStore
  /\ lastOp'.op = "stats" => lastOp'.keys = Cardinality(DOMAIN ActiveStore)
  /\ lastOp'.op = "allkeys" =>
       /\ lastOp'.keys = DOMAIN ActiveStore
       /\ \A key \in lastOp'.keys :
            Cardinality({ userId \in Tenants : KeyOfUser(key, userId) }) = 1

\* C27 as stated: the diagnostics agree with the store after any sequence of
\* sets (the count is the number of distinct keys set, the enumeration lists
\* them with their tenant prefix) and after clearAllCache (count 0, nothing
\* listed).
C27_DiagnosticsAgree == [][DiagnosticsAgree]_vars

\* C27, with the backend working: the same, for steps in which no Redis
\* command fails and the Redis client is not dropped.
C27_DiagnosticsAgreeNoFailure ==
  [][(/\ lastOp'.op # "error"
      /\ lastOp'.op \in {"set", "clear", "stats", "allkeys"} => ~lastOp'.failed)
       => DiagnosticsAgree]_vars

\* The statistics have just reported the two keys that were set.
C27_Witness ==
  /\ lastOp.op = "stats"
  /\ ~lastOp.failed
  /\ lastOp.keys = 2
  /\ Cardinality(DOMAIN ActiveStore) = 2

(***************************************************************************)
(* Calls of the key derivation with endpoint names that are paths          *)
(***************************************************************************)

sDotDot == << ".", "." >>
sSlashSlash == << "/", "/" >>
\* request.routerPath of GET /budgets/:id, the endpoint when the route names
\* none.
sRouterPath == sSlash \o sBudgets \o sSlash \o << ":", "i", "d" >>
\* ../budgets and /budgets//:id
sParentPath == sDotDot \o sSlash \o sBudgets
sDoubledPath == sSlash \o sBudgets \o sSlashSlash \o << ":", "i", "d" >>

SegEndpoints == {sBudgets, sRouterPath, sParentPath, sDoubledPath}
SegParams == {POther("omitted"), PObj(<< >>), LimitTen}

\* Two calls with endpoint names of every kind, not yet made.
InitSeg ==
  /\ \E a, b \in KeyTenants, e1, e2 \in SegEndpoints, p \in SegParams :
       calls = << [userId |-> a, endpoint |-> e1, params |-> p,
                   done |-> FALSE, key |-> << >>],
                  [userId |-> b, endpoint |-> e2, params |-> p,
                   done |-> FALSE, key |-> << >>] >>
  /\ impl = "key"
  /\ now = 0
  /\ ticks = 0
  /\ db = 0
  /\ cache = << >>
  /\ redisClient = "null"
  /\ redis = << >>
  /\ fallbackCache = << >>
  /\ inval = [pc |-> "idle"]
  /\ reqs = << >>
  /\ conn = Settled
  /\ lastOp = [op |-> "none"]

SpecSeg == InitSeg /\ [][NextKey]_vars

\* The tenant and endpoint segments of a derived key: what follows user: up
\* to the end of the endpoint name.
SegmentsOf(call) ==
  SubSeq(call.key, Len(sUser \o sColon) + 1,
         Len(KeyPrefix(call.userId, call.endpoint)))

\* C28: the tenant and endpoint segments of every derived cache key contain
\* neither '..' nor '//', whatever tenant identity and endpoint name are
\* passed in.
C28_SegmentsSafe ==
  \A i \in 1..Len(calls) :
    calls[i].done =>
      /\ ~Includes(SegmentsOf(calls[i]), sDotDot)
      /\ ~Includes(SegmentsOf(calls[i]), sSlashSlash)

\* The literal text of an invalidation pattern before its trailing '*'.
PatternPrefix(userId, endpoint) ==
  LET pattern == InvalidatePattern(userId, endpoint)
  IN SubSeq(pattern, 1, Len(pattern) - 1)

\* C29: pattern matching is prefix-only in both backends: an invalidation
\* removes a stored key only if the key begins with the literal text before
\* the trailing '*' of its pattern (a key that holds that text further on is
\* kept), and the in-memory backend of cache.js removes every such key.
C29_PrefixOnlyMatching ==
  [][lastOp'.op = "invalidate" =>
       LET prefix == PatternPrefix(lastOp'.user, lastOp'.endpoint)
       IN /\ \A key \in lastOp'.removed : StartsWith(key, prefix)
          /\ impl = "cache" =>
               \A key \in DOMAIN cache :
                 StartsWith(key, prefix) => key \in lastOp'.removed]_vars

\* C30: absence of a tenant identity is the only condition under which a GET
\* on a cacheable route skips caching: a GET whose request carries a user
\* with an id, whatever its value (0 included), reaches its handler only
\* after the backend was consulted and missed, with the send wrapped, and
\* its 2xx response is stored when it is sent.
C30_OnlyNoTenantSkips ==
  [][\A s \in DOMAIN reqs :
       /\ (PassesGate(s) /\ reqs'[s].method = "GET" /\ reqs'[s].user # NoUser)
            => (lastOp'.op = "miss" /\ reqs'[s].wrapped)
       /\ (/\ IsSent(s) /\ reqs[s].method = "GET" /\ reqs[s].user # NoUser
           /\ reqs[s].statusCode >= 200 /\ reqs[s].statusCode < 300)
            => (lastOp'.wrapped /\ lastOp'.key \in StoredKeys')]_vars

(***************************************************************************)
(* Requests in flight at the same time: cached GETs, mutations and their   *)
(* invalidation, with every Redis command succeeding                       *)
(***************************************************************************)

\* The number of requests in flight at once.
Racers == 2

InitRace ==
  /\ calls = NoCalls
  /\ impl \in {"cache", "cache-redis"}
  /\ now = 0
  /\ ticks = 0
  /\ db = 0
  /\ cache = NoEntries
  /\ redisClient \in (IF impl = "cache-redis" THEN {"open", "null"} ELSE {"null"})
  /\ redis = NoEntries
  /\ fallbackCache = NoEntries
  /\ inval = [pc |-> "idle"]
  /\ reqs = [s \in 1..Racers |-> IdleReq]
  /\ conn = Settled
  /\ lastOp = [op |-> "none"]

\* A request that has passed the gate ends without reply.send being called:
\* its handler never returns (the connection is gone, the process drops the
\* request); nothing of the cache is touched.
Abandon(s) ==
  /\ reqs[s].pc = "handler"
  /\ reqs[s].method = "GET"
  /\ reqs' = [reqs EXCEPT ![s] = IdleReq]
  /\ lastOp' = [op |-> "abandoned", user |-> reqs[s].user,
                key |-> reqs[s].cacheKey, wrapped |-> reqs[s].wrapped]
  /\ UNCHANGED << envVars, cache, redisVars >>

NextRace ==
  \/ \E s \in DOMAIN reqs : Request(s, "GET", 1, BudgetsOptions, NoQuery)
  \/ \E s \in DOMAIN reqs : RunHandler(s)
  \/ \E s \in DOMAIN reqs : Send(s)
  \/ \E s \in DOMAIN reqs : RequestR(s, "GET", 1, ConnectionsOptions, NoQuery, FALSE)
  \/ \E s \in DOMAIN reqs : SendR(s, FALSE)
  \/ \E s \in DOMAIN reqs, m \in {BudgetsPut, ConnectionsPost} :
       MutationStart(s, 1, m, TRUE)
  \/ \E s \in DOMAIN reqs : MutationWriteReturns(s, TRUE, FALSE)
  \/ InvalidateDelR(FALSE)
  \/ \E s \in DOMAIN reqs : Abandon(s)

SpecRace == InitRace /\ [][NextRace]_vars

\* A store gains an entry or the entry of a key changes in this step.
Written(before, after) ==
  \E key \in DOMAIN after : key \notin DOMAIN before \/ after[key] # before[key]

\* What this step writes is the response the request of slot s sends.
WritesResponseOf(s) ==
  LET r == reqs[s]
  IN /\ IsSent(s)
     /\ r.wrapped
     /\ r.data # Undefined
     /\ r.statusCode >= 200 /\ r.statusCode < 300
     /\ \A key \in StoredKeys' :
          /\ (key \in DOMAIN cache' /\ (key \notin DOMAIN cache
                                          \/ cache'[key] # cache[key]))
               => (key = r.cacheKey /\ cache'[key].v = r.data)
          /\ (key \in DOMAIN redis' /\ (key \notin DOMAIN redis
                                          \/ redis'[key] # redis[key]))
               => (key = r.cacheKey /\ redis'[key].v = JSONStringify(r.data))
          /\ (key \in DOMAIN fallbackCache'
                /\ (key \notin DOMAIN fallbackCache
                      \/ fallbackCache'[key] # fallbackCache[key]))
               => (key = r.cacheKey /\ fallbackCache'[key].v = r.data)

\* C31: a cache write for a request is issued only in that request's send
\* step, after the handler has produced its response: every step that
\* writes to a store is the send of a request that missed, writing that
\* response under that request's key, and a request that ends before
\* sending leaves every store as it was.
C31_WriteOnlyOnSend ==
  [][/\ (Written(cache, cache') \/ Written(redis, redis')
           \/ Written(fallbackCache, fallbackCache'))
          => \E s \in DOMAIN reqs : WritesResponseOf(s)
     /\ lastOp'.op = "abandoned"
          => (cache' = cache /\ redis' = redis /\ fallbackCache' = fallbackCache)]_vars

\* A request that missed has ended without sending while the other request
\* was in flight, and its key has no entry.
C31_Witness ==
  /\ lastOp.op = "abandoned"
  /\ lastOp.wrapped
  /\ lastOp.key \notin StoredKeys
  /\ \E s \in DOMAIN reqs : reqs[s].pc # "idle"

\* The event loop runs every handler that is ready and every reply that is
\* ready to be sent: no step of one request waits for another request.
SpecRaceFair ==
  /\ SpecRace
  /\ \A s \in 1..Racers :
       /\ WF_vars(RunHandler(s))
       /\ WF_vars(Send(s))
       /\ WF_vars(SendR(s, FALSE))

\* The backend in use holds data under key.
Holds(store, key, data) ==
  /\ key \in DOMAIN store
  /\ store[key].v = (IF impl = "cache-redis" /\ RedisActive
                     THEN JSONStringify(data) ELSE data)

\* The request of slot s missed and sends a 2xx response in this step.
StoresOnSend(s) ==
  /\ IsSent(s)
  /\ reqs[s].wrapped
  /\ reqs[s].statusCode >= 200 /\ reqs[s].statusCode < 300

\* Another request missed on the key of slot s and is still in flight, or
\* has already stored its response under that key.
Stampede(s) ==
  \/ \E o \in DOMAIN reqs \ {s} :
       reqs[o].wrapped /\ reqs[o].cacheKey = reqs[s].cacheKey
  \/ reqs[s].cacheKey \in DOMAIN ActiveStore

\* C32: cache stampede is permitted and harmless: of two GETs that missed
\* on one key each runs its handler and stores when it sends, so that the
\* key then has one entry holding the payload of that handler run, and each
\* request that missed eventually completes without waiting for the other.
C32_StampedeHarmless ==
  /\ [][\A s \in DOMAIN reqs :
          (StoresOnSend(s) /\ Stampede(s))
            => /\ lastOp'.handlerRuns = 1
               /\ reqs[s].data # Undefined
               /\ Holds(ActiveStore', reqs[s].cacheKey, reqs[s].data)]_vars
  /\ \A s \in 1..Racers : reqs[s].wrapped ~> (reqs[s].pc = "idle")

\* Two requests missed on the same key; one has just stored its response
\* and the other has run its handler and is about to store.
C32_Witness ==
  /\ lastOp.op = "sent"
  /\ lastOp.wrapped
  /\ lastOp.statusCode = 200
  /\ \E s \in DOMAIN reqs :
       /\ reqs[s].pc = "send"
       /\ reqs[s].wrapped
       /\ reqs[s].statusCode = 200
       /\ reqs[s].cacheKey = lastOp.key
       /\ Holds(ActiveStore, lastOp.key, lastOp.response)

(***************************************************************************)
(* cache-redis.js: initializeRedis, the client's reconnection and its      *)
(* 'error' events                                                          *)
(***************************************************************************)

\* 1000 * 60 * 60 milliseconds of total retry time.
MaxRetryTime == 3600000

\* The number of attempts after which retry_strategy stops.
MaxAttempts == 10

\* Milliseconds of delay per attempt, and their cap.
RetryStep == 100
RetryCap == 3000

\* How long a failing connection attempt takes, in milliseconds.
AttemptQuick == 10
AttemptSlow == 1200000

\* The 'Redis Client Error' lines that are counted.
MaxErrorEvents == 2

\* The error codes of a failing connection attempt.
ErrorCodes == {"ECONNREFUSED", "ETIMEDOUT"}

\* A retry_strategy that keeps retrying a refused connection.
retry_strategyRetriesRefused(options) ==
  IF options.total_retry_time > MaxRetryTime
  THEN [kind |-> "Error", value |-> 0]
  ELSE IF options.attempt > MaxAttempts
  THEN [kind |-> "undefined", value |-> 0]
  ELSE [kind |-> "number",
        value |-> IF options.attempt * RetryStep < RetryCap
                  THEN options.attempt * RetryStep ELSE RetryCap]

\* The retry_strategy option of createClient: an Error or undefined ends the
\* reconnection, a number is the delay before the next attempt.
retry_strategy(options) ==
  IF options.error = "ECONNREFUSED"
  THEN [kind |-> "Error", value |-> 0]
  ELSE IF options.total_retry_time > MaxRetryTime
  THEN [kind |-> "Error", value |-> 0]
  ELSE IF options.attempt > MaxAttempts
  THEN [kind |-> "undefined", value |-> 0]
  ELSE [kind |-> "number",
        value |-> IF options.attempt * RetryStep < RetryCap
                  THEN options.attempt * RetryStep ELSE RetryCap]

\* The module is loaded and main.js has not yet called initializeRedis.
InitStart ==
  /\ calls = NoCalls
  /\ impl = "cache-redis"
  /\ now = 0
  /\ ticks = 0
  /\ db = 0
  /\ cache = NoEntries
  /\ redisClient = "null"
  /\ redis = NoEntries
  /\ fallbackCache = NoEntries
  /\ inval = [pc |-> "idle"]
  /\ reqs = [s \in 1..MaxInFlight |-> IdleReq]
  /\ conn \in {[Settled EXCEPT !.pc = "load", !.configured = c] : c \in BOOLEAN}
  /\ lastOp = [op |-> "none"]

\* initializeRedis up to `await redisClient.connect()`.
InitializeRedis ==
  /\ conn.pc = "load"
  /\ IF ~conn.configured
     THEN /\ conn' = [conn EXCEPT !.pc = "settled", !.returned = "false"]
          /\ UNCHANGED redisClient
     ELSE /\ conn' = [conn EXCEPT !.pc = "connecting", !.attempt = 1]
          /\ redisClient' = "closed"
  /\ lastOp' = [op |-> "start"]
  /\ UNCHANGED << calls, impl, now, ticks, db, cache, redis, fallbackCache,
                  inval, reqs >>

\* The 'error' listener: logs, and assigns null to redisClient.
OnError(logged) == [logged |-> logged + 1, redisClient |-> "null"]

\* One connection attempt of the client ends: it connects and connect()
\* resolves, or it fails, the client may emit 'error', and retry_strategy
\* decides between a delayed retry and the rejection of connect().
ConnectAttempt(outcome, duration, emits) ==
  /\ conn.pc = "connecting"
  /\ emits => (outcome # "ok" /\ conn.logged < MaxErrorEvents)
  /\ IF outcome = "ok"
     THEN /\ conn' = [conn EXCEPT !.pc = "settled", !.returned = "true"]
          /\ redisClient' = (IF redisClient = "closed" THEN "open" ELSE redisClient)
          /\ lastOp' = [op |-> "attempt", outcome |-> outcome]
     ELSE LET total == conn.total + duration
              options == [error |-> outcome, total_retry_time |-> total,
                          attempt |-> conn.attempt]
              result == retry_strategy(options)
              heard == IF emits THEN OnError(conn.logged)
                       ELSE [logged |-> conn.logged, redisClient |-> redisClient]
          IN /\ lastOp' = [op |-> "attempt", outcome |-> outcome,
                           options |-> options, result |-> result]
             /\ IF result.kind = "number"
                THEN /\ conn' = [conn EXCEPT !.attempt = conn.attempt + 1,
                                             !.total = total + result.value,
                                             !.logged = heard.logged]
                     /\ redisClient' = heard.redisClient
                ELSE /\ conn' = [conn EXCEPT !.pc = "settled", !.total = total,
                                             !.logged = heard.logged,
                                             !.gaveUp = TRUE,
                                             !.returned = "false"]
                     /\ redisClient' = "null"
  /\ UNCHANGED << calls, impl, now, ticks, db, cache, redis, fallbackCache,
                  inval, reqs >>

\* The client emits 'error' after initializeRedis has returned: the listener
\* registered at startup runs whatever redisClient holds by then.
RedisErrorEvent ==
  /\ conn.pc = "settled"
  /\ conn.returned = "true"
  /\ conn.logged < MaxErrorEvents
  /\ conn' = [conn EXCEPT !.logged = OnError(conn.logged).logged]
  /\ redisClient' = OnError(conn.logged).redisClient
  /\ lastOp' = [op |-> "error"]
  /\ UNCHANGED << calls, impl, now, ticks, db, cache, redis, fallbackCache,
                  inval, reqs >>

NextStart ==
  \/ InitializeRedis
  \/ \E outcome \in ErrorCodes \cup {"ok"}, duration \in {AttemptQuick, AttemptSlow},
        emits \in BOOLEAN :
       ConnectAttempt(outcome, duration, emits)
  \/ RedisErrorEvent
  \/ \E fails \in BOOLEAN :
       conn.pc = "settled" /\ SetCachedR(1, sConnections, POther("omitted"), 0, fails)
  \/ \E fails \in BOOLEAN :
       conn.pc = "settled" /\ GetCachedR(1, sConnections, POther("omitted"), fails)

SpecStart == InitStart /\ [][NextStart]_vars

\* C33: the demotion is safe under concurrent failures: once the 'error'
\* events of a client that had connected have been observed, whatever
\* operations ran in between, redisClient is null and the demotion has been
\* logged exactly once.
C33_DemotionOnce ==
  (conn.returned = "true" /\ conn.logged > 0)
    => (redisClient = "null" /\ conn.logged = 1)

\* main.js awaits initializeRedis, and the client goes on with its
\* connection attempts until one succeeds or retry_strategy ends them.
SpecStartFair ==
  /\ SpecStart
  /\ WF_vars(InitializeRedis)
  /\ WF_vars(\E outcome \in ErrorCodes \cup {"ok"},
                duration \in {AttemptQuick, AttemptSlow}, emits \in BOOLEAN :
               ConnectAttempt(outcome, duration, emits))

\* initializeRedis gave up, or found no Redis URL configured.
LocalOnly == conn.pc = "settled" /\ (conn.gaveUp \/ ~conn.configured)

\* What a failed attempt's retry decision has to be.
RetryDecision(op) ==
  LET o == op.options
      stops == \/ o.error = "ECONNREFUSED"
               \/ o.attempt > 10
               \/ o.total_retry_time > 60 * 60 * 1000
  IN /\ stops <=> op.result.kind # "number"
     /\ ~stops => op.result.value
                    = (IF o.attempt * 100 <= 3000 THEN o.attempt * 100 ELSE 3000)

C35_NoStaleWriteBack ==
  (/\ lastOp.op = "sent"
   /\ lastOp.wrapped
   /\ lastOp.statusCode >= 200 /\ lastOp.statusCode < 300
   /\ lastOp.response.ver < db
   /\ inval.pc = "idle"
   /\ \A s \in DOMAIN reqs : reqs[s].pc # "write")
    => ~Holds(ActiveStore, lastOp.key, lastOp.response)

\* C36: invalidation completes before the mutation is acknowledged: when a
\* mutating handler has returned its success response, the backend in use
\* holds no entry of that tenant under an endpoint the handler invalidates.
C36_InvalidatedBeforeAck ==
  (/\ lastOp.op = "mutation"
   /\ lastOp.wrote
   /\ lastOp.statusCode >= 200 /\ lastOp.statusCode < 300)
    => \A i \in DOMAIN lastOp.invalidated, key \in DOMAIN ActiveStore :
         ~StartsWith(key, PatternPrefix(lastOp.user, lastOp.invalidated[i]))

\* C37: serving a hit leaves the cache unchanged: the step that answers a
\* request from the cache issues no set, so every entry, the one served
\* included, keeps the value and the expiration instant its store gave it,
\* and hits never extend an entry's lifetime.
C37_HitLeavesCache ==
  [][(lastOp'.op = "hit" /\ now' = now)
       => /\ cache' = cache
          /\ redis' = redis
          /\ fallbackCache' = fallbackCache
          /\ lastOp'.key \in StoredKeys']_vars

\* A request is answered from an entry stored at time 0, at a later time.
C37_Witness ==
  /\ lastOp.op = "hit"
  /\ now = TickSeconds
  /\ lastOp.key \in DOMAIN ActiveStore
  /\ ActiveStore[lastOp.key].t > now
  /\ ActiveStore[lastOp.key].t < now + BudgetsTtl

\* C38: every key the gate reads or writes for a request begins with
\* 'user:<id>:' for that request's tenant, whatever the gate's options, a
\* custom keyGenerator included: the key of a hit and the key under which a
\* response is stored are keys of the requesting tenant.
C38_GateKeysOfTenant ==
  (\/ lastOp.op = "hit"
   \/ (lastOp.op = "sent" /\ lastOp.wrapped))
    => KeyOfUser(lastOp.key, lastOp.user)

(***************************************************************************)
(* Times to live: routes registered with and without a ttl option, and     *)
(* setCachedData called with and without a ttl                             *)
(***************************************************************************)

\* cacheMiddleware({ endpoint }) without a ttl option.
WithoutTtl(route) == [route EXCEPT !.ttl = 0]

\* The routes registered without a ttl option, one per module.
TtlRoutes == {WithoutTtl(BudgetOptions)}
TtlRoutesR == {WithoutTtl(ConnectionOptions)}

NextDefault ==
  \/ \E s \in DOMAIN reqs, route \in TtlRoutes : Request(s, "GET", 1, route, NoQuery)
  \/ \E s \in DOMAIN reqs : RunHandler(s)
  \/ \E s \in DOMAIN reqs : Send(s)
  \/ \E endpoint \in ApiEndpoints, params \in ApiParams, ttl \in ApiTtls :
       SetCached(1, endpoint, params, ttl)
  \/ \E s \in DOMAIN reqs, route \in TtlRoutesR, fails \in BOOLEAN :
       RequestR(s, "GET", 1, route, NoQuery, fails)
  \/ \E s \in DOMAIN reqs, fails \in BOOLEAN : SendR(s, fails)
  \/ \E endpoint \in ApiEndpoints, params \in ApiParams, ttl \in ApiTtls,
        fails \in BOOLEAN :
       SetCachedR(1, endpoint, params, ttl, fails)
  \/ RedisError
  \/ Tick

SpecDefault == Init /\ [][NextDefault]_vars

\* The entry of key is written in this step.
StoredNow(before, after, key) ==
  key \in DOMAIN after /\ (key \notin DOMAIN before \/ after[key] # before[key])

\* This step stores without a time to live of its own: setCachedData called
\* with ttl 0 or none, or the send of a route registered without a ttl.
NoTtlGiven ==
  \/ lastOp'.op = "set" /\ lastOp'.ttl = 0
  \/ \E s \in DOMAIN reqs :
       IsSent(s) /\ reqs[s].endpoint \in {sBudget, sConnection}

\* The expiry of an entry written at this time is finite and positive, and
\* 600 seconds away when no time to live was given.
ExpiryGiven(entry) ==
  /\ entry.t > now
  /\ entry.t <= now + 600
  /\ NoTtlGiven => entry.t = now + 600

\* C39: every entry stored in either backend carries a finite, positive
\* time to live: no store holds an entry without an expiry, every entry is
\* written with an expiry after the time of the write, and a route ttl or
\* set ttl that is absent, null or 0 gives an expiry 600 seconds later.
C39_FiniteTtl ==
  /\ [](\A key \in StoredKeys :
          /\ key \in DOMAIN cache => cache[key].t > 0
          /\ key \in DOMAIN redis => redis[key].t > 0
          /\ key \in DOMAIN fallbackCache => fallbackCache[key].t > 0)
  /\ [][now' = now
          => \A key \in StoredKeys' :
               /\ StoredNow(cache, cache', key) => ExpiryGiven(cache'[key])
               /\ StoredNow(redis, redis', key) => ExpiryGiven(redis'[key])
               /\ StoredNow(fallbackCache, fallbackCache', key)
                    => ExpiryGiven(fallbackCache'[key])]_vars

\* After the clock has advanced, setCachedData was called without a ttl and
\* the entry it wrote expires 600 seconds after the call.
C39_Witness ==
  /\ lastOp.op = "set"
  /\ lastOp.ttl = 0
  /\ lastOp.at > 0
  /\ lastOp.at = now
  /\ lastOp.key \in DOMAIN ActiveStore
  /\ ActiveStore[lastOp.key].t = now + 600

====
